---- MODULE Spec2Model ----
(***************************************************************************)
(* A model of the image tools of aparfenen/lazyme:                         *)
(*   - orient_pro.py / orient_basic.py : EXIF-normalize and force-target   *)
(*     orientation of one image file, run after run;                       *)
(*   - rename_images_by_exif_pro.py / rename_images_by_exif.py : metadata  *)
(*     driven file names and the collision-free destination path.          *)
(*                                                                         *)
(* Pixels are modelled by the four corners of the pixel buffer,            *)
(* <<top-left, top-right, bottom-right, bottom-left>>, which is enough to  *)
(* tell apart the eight mirror/rotation arrangements; the size (w, h) is   *)
(* carried beside it.  The codec (Pillow) is modelled by what the calls    *)
(* the tools make do: Image.transpose / Image.rotate(expand=True) /        *)
(* ImageOps.exif_transpose / Image.save(exif=...).                         *)
(***************************************************************************)
EXTENDS Integers, Sequences, FiniteSets, TLC

VARIABLES
    env,      \* orientation session: tool, extension and codec behaviour
    disk,     \* orientation session: location -> file content (or NoFile)
    stats,    \* orientation session: ProcessingStats counters
    hist,     \* orientation session: one record per processed file, in order
    nm,       \* name session: one file and the names derived for it, run by run
    rn,       \* rename batch: the files, the directory tree and the progress
    dd,       \* duplicate removal: the listing, the groups and the files on disk
    ob        \* orientation batch: the files, the workers and the outcomes

vars == <<env, disk, stats, hist, nm, rn, dd, ob>>

----------------------------------------------------------------------------
(* Bounds of the model *)

\* number of orientation runs over the file in a general session
MaxRuns == 2

\* number of consecutive force-target runs in a force-only session
ForceRuns == 3

----------------------------------------------------------------------------
(* Pixel buffer transforms of the codec (PIL.Image.transpose methods).     *)
(* A buffer is <<tl, tr, br, bl>>.  PIL rotates counter-clockwise.         *)

FLIP_LEFT_RIGHT(p) == <<p[2], p[1], p[4], p[3]>>

FLIP_TOP_BOTTOM(p) == <<p[4], p[3], p[2], p[1]>>

\* 90 degrees counter-clockwise: the top-right corner becomes the top-left
ROTATE_90(p) == <<p[2], p[3], p[4], p[1]>>

ROTATE_180(p) == <<p[3], p[4], p[1], p[2]>>

\* 270 degrees counter-clockwise (= 90 clockwise): bottom-left becomes top-left
ROTATE_270(p) == <<p[4], p[1], p[2], p[3]>>

\* mirror over the main diagonal (top-left to bottom-right)
TRANSPOSE(p) == <<p[1], p[4], p[3], p[2]>>

\* mirror over the anti-diagonal (top-right to bottom-left)
TRANSVERSE(p) == <<p[3], p[2], p[1], p[4]>>

\* An in-memory image: size, pixels, and the EXIF block it carries:
\*   tag   = value of EXIF Orientation (0x0112), 0 when the tag is absent
\*   other = TRUE when the EXIF block holds tags besides Orientation
\*   gen   = how many times the pixels were re-encoded by one of the tools
Img(w, h, px, tag, other, gen) ==
    [w |-> w, h |-> h, px |-> px, tag |-> tag, other |-> other, gen |-> gen]

\* Image.transpose(method): the size is swapped by the four methods that
\* exchange rows and columns; info (the EXIF block) is copied to the result.
ImTranspose(img, method) ==
    LET swap == method \in {"ROTATE_90", "ROTATE_270", "TRANSPOSE", "TRANSVERSE"}
        px == CASE method = "FLIP_LEFT_RIGHT" -> FLIP_LEFT_RIGHT(img.px)
                [] method = "FLIP_TOP_BOTTOM" -> FLIP_TOP_BOTTOM(img.px)
                [] method = "ROTATE_90"       -> ROTATE_90(img.px)
                [] method = "ROTATE_180"      -> ROTATE_180(img.px)
                [] method = "ROTATE_270"      -> ROTATE_270(img.px)
                [] method = "TRANSPOSE"       -> TRANSPOSE(img.px)
                [] method = "TRANSVERSE"      -> TRANSVERSE(img.px)
    IN  [img EXCEPT !.w = IF swap THEN img.h ELSE img.w,
                    !.h = IF swap THEN img.w ELSE img.h,
                    !.px = px]

\* Image.rotate(angle, expand=True) for the angles the tools use: a
\* counter-clockwise rotation, done by the matching transpose method.
ImRotate(img, angle) ==
    CASE angle = 90  -> ImTranspose(img, "ROTATE_90")
      [] angle = 180 -> ImTranspose(img, "ROTATE_180")
      [] angle = 270 -> ImTranspose(img, "ROTATE_270")
      [] OTHER       -> img

----------------------------------------------------------------------------
(* EXIF Orientation handling (orient_pro.py) *)

\* get_orientation_tag: the Orientation value of the EXIF block; every read
\* strategy falls through to "return 1" when the tag is absent.
get_orientation_tag(img) == IF img.tag # 0 THEN img.tag ELSE 1

\* needs_orientation_fix
needs_orientation_fix(img) == get_orientation_tag(img) # 1

\* The transpose method ImageOps.exif_transpose picks for an Orientation
\* value (Pillow's table); "NONE" when there is nothing to do.
ExifTransposeMethod(tag) ==
    CASE tag = 2 -> "FLIP_LEFT_RIGHT"
      [] tag = 3 -> "ROTATE_180"
      [] tag = 4 -> "FLIP_TOP_BOTTOM"
      [] tag = 5 -> "TRANSPOSE"
      [] tag = 6 -> "ROTATE_270"
      [] tag = 7 -> "TRANSVERSE"
      [] tag = 8 -> "ROTATE_90"
      [] OTHER   -> "NONE"

\* ImageOps.exif_transpose(img): the transposed copy, with the Orientation
\* tag deleted from the EXIF block of the copy; a plain copy when the tag is
\* absent or 1.
exif_transpose(img) ==
    LET method == ExifTransposeMethod(img.tag)
    IN  IF method = "NONE" THEN img
        ELSE [ImTranspose(img, method) EXCEPT !.tag = 0]

\* a slip ManualOrientation could have: tag 6 rotated by 90 instead of 270
ManualOrientation_tag6By90(img, orientation) ==
    CASE orientation = 2 -> ImTranspose(img, "FLIP_LEFT_RIGHT")
      [] orientation = 3 -> ImRotate(img, 180)
      [] orientation = 4 -> ImTranspose(img, "FLIP_TOP_BOTTOM")
      [] orientation = 5 -> ImRotate(ImTranspose(img, "FLIP_LEFT_RIGHT"), 270)
      [] orientation = 6 -> ImRotate(img, 90)
      [] orientation = 7 -> ImRotate(ImTranspose(img, "FLIP_LEFT_RIGHT"), 90)
      [] orientation = 8 -> ImRotate(img, 90)
      [] OTHER -> img

\* "Method 2" of apply_exif_orientation: the manual rotation by Orientation
\* value, in the code's order of calls (transpose first, then rotate).
ManualOrientation(img, orientation) ==
    CASE orientation = 2 -> ImTranspose(img, "FLIP_LEFT_RIGHT")
      [] orientation = 3 -> ImRotate(img, 180)
      [] orientation = 4 -> ImTranspose(img, "FLIP_TOP_BOTTOM")
      [] orientation = 5 -> ImRotate(ImTranspose(img, "FLIP_LEFT_RIGHT"), 270)
      [] orientation = 6 -> ImRotate(img, 270)
      [] orientation = 7 -> ImRotate(ImTranspose(img, "FLIP_LEFT_RIGHT"), 90)
      [] orientation = 8 -> ImRotate(img, 90)
      [] OTHER -> img

\* apply_exif_orientation(img) -> (image, changed).  transposeRaises says
\* whether ImageOps.exif_transpose raises in this installation (the except
\* branch that leads to Method 2).  An opened file and a transposed copy
\* are never equal as Pillow images (their classes differ), so Method 1
\* returns whenever it does not raise and yields an image.
apply_exif_orientation(img, transposeRaises) ==
    LET orientation == get_orientation_tag(img)
    IN  IF orientation = 1
          THEN [img |-> img, changed |-> FALSE, path |-> "none"]
        ELSE IF ~transposeRaises
          THEN [img |-> exif_transpose(img), changed |-> TRUE, path |-> "primary"]
        ELSE IF orientation \in 2..8
          THEN [img |-> ManualOrientation(img, orientation), changed |-> TRUE,
                path |-> "manual"]
        ELSE [img |-> img, changed |-> FALSE, path |-> "none"]

\* a slip force_orientation could have: a square counted as portrait
force_orientation_strict(img, want_landscape) ==
    LET is_landscape == img.w > img.h
    IN  IF is_landscape = want_landscape
          THEN [img |-> img, changed |-> FALSE, path |-> "none"]
          ELSE [img |-> ImRotate(img, IF want_landscape THEN 270 ELSE 90),
                changed |-> TRUE, path |-> "rotate"]

\* force_orientation(img, want_landscape) of orient_pro.py
force_orientation(img, want_landscape) ==
    LET is_landscape == img.w >= img.h
    IN  IF is_landscape = want_landscape
          THEN [img |-> img, changed |-> FALSE, path |-> "none"]
          ELSE [img |-> ImRotate(img, IF want_landscape THEN 270 ELSE 90),
                changed |-> TRUE, path |-> "rotate"]

\* a slip force_target_rotation could have: a half turn, which keeps the size
force_target_rotation_half(img, want_landscape) ==
    LET is_landscape == img.w >= img.h
    IN  IF is_landscape = want_landscape THEN img ELSE ImRotate(img, 180)

\* force_target_rotation(im, want_landscape) of orient_basic.py
force_target_rotation(img, want_landscape) ==
    LET is_landscape == img.w >= img.h
    IN  IF is_landscape = want_landscape THEN img ELSE ImRotate(img, 90)

----------------------------------------------------------------------------
(* Saving *)

\* FORMAT_MAP of orient_pro.py / EXT2FMT of orient_basic.py, for the
\* extensions of the model
FormatOf(ext) ==
    CASE ext = ".jpg" -> "JPEG"
      [] ext = ".png" -> "PNG"
      [] ext = ".gif" -> "GIF"

NoExif == [tag |-> 0, other |-> FALSE]

\* Image.save(path, format=fmt, exif=...): the file that results.  The
\* encoder writes the EXIF block it is handed, when the format has one, and
\* no EXIF block otherwise; the pixels are re-encoded.
Encode(img, fmt, exifKw) ==
    LET written == IF fmt \in {"JPEG", "PNG"} THEN exifKw ELSE NoExif
    IN  [img EXCEPT !.tag = written.tag, !.other = written.other,
                    !.gen = img.gen + 1]

\* a slip save_with_metadata could have: the EXIF block handed to the
\* encoder as it is, Orientation not reset
save_with_metadata_noreset(img, ext) ==
    Encode(img, FormatOf(ext), [tag |-> img.tag, other |-> img.other])

\* save_with_metadata(img, output_path, source_path) of orient_pro.py:
\* when the image carries a non-empty EXIF block its Orientation is set to
\* 1 and the block is handed to the encoder.
save_with_metadata(img, ext) ==
    LET exifTruthy == img.tag # 0 \/ img.other
        kw == IF exifTruthy THEN [tag |-> 1, other |-> img.other] ELSE NoExif
    IN  Encode(img, FormatOf(ext), kw)

\* a slip save_with_orientation_reset could have: Orientation not reset
save_with_orientation_reset_noreset(img, ext, piexifRaises) ==
    LET fmt == FormatOf(ext)
        kw == IF fmt \in {"JPEG", "TIFF"} /\ ~piexifRaises
                THEN [tag |-> img.tag, other |-> img.other] ELSE NoExif
    IN  Encode(img, fmt, kw)

\* save_with_orientation_reset(src, im, dst) of orient_basic.py: the EXIF
\* block (Orientation set to 1) is handed to the encoder only for JPEG and
\* TIFF, and only when piexif can load and dump it.
save_with_orientation_reset(img, ext, piexifRaises) ==
    LET exifTruthy == img.tag # 0 \/ img.other
        fmt == FormatOf(ext)
        kw == IF exifTruthy /\ fmt \in {"JPEG", "TIFF"} /\ ~piexifRaises
                THEN [tag |-> 1, other |-> img.other] ELSE NoExif
    IN  Encode(img, fmt, kw)

----------------------------------------------------------------------------
(* One orientation session: a tool is run over the same image file again   *)
(* and again.  Locations: "src" is the input tree, "out" the output tree   *)
(* (<path>_oriented) that a run without --inplace writes to.               *)

Loc == {"src", "out"}

\* no file at a location
NoFile == Img(0, 0, <<0, 0, 0, 0>>, 0, FALSE, 0)

\* the sizes of the input images
Sizes == {<<100, 200>>, <<200, 100>>, <<150, 150>>}

\* the extensions of the input images
Exts == {".jpg", ".png", ".gif"}

\* the files an orientation session can start from; a GIF carries no EXIF
InputFiles(ext) ==
    {Img(s[1], s[2], <<1, 2, 3, 4>>, t, o, 0) :
        s \in Sizes,
        t \in (IF ext = ".gif" THEN {0} ELSE 0..8),
        o \in (IF ext = ".gif" THEN {FALSE} ELSE BOOLEAN)}

\* the installations: which tool is run, whether ImageOps.exif_transpose
\* raises, whether piexif raises on the EXIF block (orient_basic.py only)
Envs ==
    {e \in [tool : {"pro", "basic"}, ext : Exts,
            transposeRaises : BOOLEAN, piexifRaises : BOOLEAN] :
        e.tool = "pro" => ~e.piexifRaises}

NoStats == [total |-> 0, processed |-> 0, skipped |-> 0, errors |-> 0]

\* no orientation session: the rename tools open no image
EnvIdle == [tool |-> "pro", ext |-> ".jpg", transposeRaises |-> FALSE,
            piexifRaises |-> FALSE]

NmIdle == [phase |-> "idle"]

RnIdle == [phase |-> "idle"]

DdIdle == [phase |-> "idle"]

ObIdle == [phase |-> "idle"]

InitOrient ==
    /\ env \in Envs
    /\ \E f \in InputFiles(env.ext) : disk = [l \in Loc |-> IF l = "src" THEN f ELSE NoFile]
    /\ stats = NoStats
    /\ hist = <<>>
    /\ nm = NmIdle
    /\ rn = RnIdle
    /\ dd = DdIdle
    /\ ob = ObIdle

\* what a run leaves in the history: the options it ran with, the file it
\* read, the image it produced in memory and what it did with it
Entry(mode, want, dry, root, wrote, changed, path, before, result) ==
    [tool |-> env.tool, mode |-> mode, want |-> want, dry |-> dry,
     root |-> root, wrote |-> wrote, changed |-> changed, path |-> path,
     before |-> before, result |-> result]

\* process_single_image of orient_pro.py for the file at `root`, with the
\* accounting process_images_batch does for it (a batch of this one file).
process_single_image(mode, want, root, inplace, dry) ==
    /\ env.tool = "pro"
    /\ disk[root] # NoFile
    /\ (root = "out" => inplace)
    /\ LET img == disk[root]
           r == IF mode = "exif"
                  THEN apply_exif_orientation(img, env.transposeRaises)
                  ELSE force_orientation(img, want)
           output_path == IF inplace THEN root ELSE "out"
           wrote == IF r.changed /\ ~dry THEN output_path ELSE "none"
       IN  /\ disk' = IF wrote = "none" THEN disk
                      ELSE [disk EXCEPT ![output_path] = save_with_metadata(r.img, env.ext)]
           /\ stats' = [total |-> 1,
                        processed |-> IF r.changed THEN 1 ELSE 0,
                        skipped |-> IF r.changed THEN 0 ELSE 1,
                        errors |-> 0]
           /\ hist' = Append(hist, Entry(mode, want, dry, root, wrote, r.changed,
                                          r.path, img, r.img))
    /\ UNCHANGED <<env, nm, rn, dd, ob>>

\* the loop body of main of orient_basic.py for the file at `root`: the
\* transformed image is saved and counted whatever the transform did; an
\* exception is printed and the file is neither saved nor counted.
basic_main(mode, want, root, inplace, dry) ==
    /\ env.tool = "basic"
    /\ disk[root] # NoFile
    /\ (root = "out" => inplace)
    /\ LET im == disk[root]
           raised == mode = "exif" /\ env.transposeRaises
           out_im == IF mode = "exif" THEN exif_transpose(im)
                     ELSE force_target_rotation(im, want)
           dst == IF inplace THEN root ELSE "out"
           wrote == IF raised \/ dry THEN "none" ELSE dst
       IN  /\ disk' = IF wrote = "none" THEN disk
                      ELSE [disk EXCEPT ![dst] =
                              save_with_orientation_reset(out_im, env.ext, env.piexifRaises)]
           /\ stats' = [total |-> 1, processed |-> IF raised THEN 0 ELSE 1,
                        skipped |-> 0, errors |-> 0]
           /\ hist' = Append(hist, Entry(mode, want, dry, root, wrote, ~raised,
                                          IF raised THEN "none" ELSE "basic",
                                          im, IF raised THEN im ELSE out_im))
    /\ UNCHANGED <<env, nm, rn, dd, ob>>

ExifRun ==
    \E root \in Loc, inplace \in BOOLEAN, dry \in BOOLEAN :
        \/ process_single_image("exif", FALSE, root, inplace, dry)
        \/ basic_main("exif", FALSE, root, inplace, dry)

TargetRun ==
    \E want \in BOOLEAN, root \in Loc, inplace \in BOOLEAN, dry \in BOOLEAN :
        \/ process_single_image("target", want, root, inplace, dry)
        \/ basic_main("target", want, root, inplace, dry)

NextOrient == Len(hist) < MaxRuns /\ (ExifRun \/ TargetRun)

SpecOrient == InitOrient /\ [][NextOrient]_vars

\* a session of force-target runs only, in place and for real
ForceRun ==
    \E want \in BOOLEAN :
        \/ process_single_image("target", want, "src", TRUE, FALSE)
        \/ basic_main("target", want, "src", TRUE, FALSE)

NextForce == Len(hist) < ForceRuns /\ ForceRun

SpecForce == InitOrient /\ [][NextForce]_vars

----------------------------------------------------------------------------
(* Strings.  A string the tools take apart is a sequence of one-character  *)
(* strings; Str makes the TLA+ string of it.                               *)

\* sub in cs: the text cs holds the text sub
Contains(cs, sub) ==
    \E k \in 0..(Len(cs) - Len(sub)) : SubSeq(cs, k + 1, k + Len(sub)) = sub

RECURSIVE Str(_)
Str(cs) == IF cs = <<>> THEN "" ELSE cs[1] \o Str(Tail(cs))

DigitChar(d) == <<"0", "1", "2", "3", "4", "5", "6", "7", "8", "9">>[d + 1]

\* str(n) for n >= 0
RECURSIVE Digits(_)
Digits(n) == IF n < 10 THEN <<DigitChar(n)>>
             ELSE Digits(n \div 10) \o <<DigitChar(n % 10)>>

\* str.zfill(width)
RECURSIVE ZFill(_, _)
ZFill(cs, width) == IF Len(cs) >= width THEN cs ELSE ZFill(<<"0">> \o cs, width)

\* f"{n:0<width>d}" and strftime's zero-padded fields, n >= 0
Pad(n, width) == ZFill(Digits(n), width)

\* str.replace(old, new) for one-character old and new
ReplaceChar(cs, old, new) ==
    [i \in 1..Len(cs) |-> IF cs[i] = old THEN new ELSE cs[i]]

UpperCase == <<"A", "B", "C", "D", "E", "F", "G", "H", "I", "J", "K", "L", "M",
               "N", "O", "P", "Q", "R", "S", "T", "U", "V", "W", "X", "Y", "Z">>

LowerCase == <<"a", "b", "c", "d", "e", "f", "g", "h", "i", "j", "k", "l", "m",
               "n", "o", "p", "q", "r", "s", "t", "u", "v", "w", "x", "y", "z">>

\* str.lower()
Lower(cs) ==
    [i \in 1..Len(cs) |->
        IF \E k \in 1..26 : UpperCase[k] = cs[i]
          THEN LowerCase[CHOOSE k \in 1..26 : UpperCase[k] = cs[i]]
          ELSE cs[i]]

\* re.sub(sep+, '_'): every maximal run of characters of seps becomes one "_"
\* (of a run the last character stays, as "_")
CollapseRuns(cs, seps) ==
    LET kept == SelectSeq([i \in 1..Len(cs) |-> i],
                          LAMBDA i : \/ cs[i] \notin seps
                                     \/ i = Len(cs)
                                     \/ cs[i + 1] \notin seps)
    IN  [k \in 1..Len(kept) |->
            IF cs[kept[k]] \in seps THEN "_" ELSE cs[kept[k]]]

RECURSIVE LStrip(_, _)
LStrip(cs, chars) ==
    IF cs # <<>> /\ cs[1] \in chars THEN LStrip(Tail(cs), chars) ELSE cs

RECURSIVE RStrip(_, _)
RStrip(cs, chars) ==
    IF cs # <<>> /\ cs[Len(cs)] \in chars
      THEN RStrip(SubSeq(cs, 1, Len(cs) - 1), chars) ELSE cs

\* str.strip(chars)
Strip(cs, chars) == RStrip(LStrip(cs, chars), chars)

Whitespace == {" ", "\t"}

----------------------------------------------------------------------------
(* File name derivation of rename_images_by_exif_pro.py *)

MAX_FILENAME_LENGTH == 200

GPS_PRECISION == 4

\* the characters sanitize_filename replaces (NUL is left out of the model)
Problematic == {"/", "\\", ":", "*", "?", "\"", "<", ">", "|"}

\* FilenameGenerator.sanitize_filename(name, max_length)
sanitize_filename(name, max_length) ==
    LET replaced == [i \in 1..Len(name) |->
                        IF name[i] \in Problematic THEN "_" ELSE name[i]]
        collapsed == CollapseRuns(replaced, Whitespace \cup {"_"})
        stripped == Strip(collapsed, {" ", "_"})
    IN  IF Len(stripped) > max_length THEN SubSeq(stripped, 1, max_length)
        ELSE stripped

\* f"{x:.<precision>f}" for a coordinate given in units of 10^-precision
\* degrees (GPS_PRECISION = 4: ten-thousandths of a degree)
RECURSIVE Pow10(_)
Pow10(k) == IF k = 0 THEN 1 ELSE 10 * Pow10(k - 1)

FormatFixed(x, precision) ==
    LET a == IF x < 0 THEN -x ELSE x
    IN  (IF x < 0 THEN <<"-">> ELSE <<>>)
        \o Digits(a \div Pow10(precision)) \o <<".">>
        \o Pad(a % Pow10(precision), precision)

None == [has |-> FALSE]

Some(x) == [has |-> TRUE, v |-> x]

\* the coordinates as printed, with no character replaced
format_gps_plain(lat, lon, precision) ==
    IF ~lat.has \/ ~lon.has THEN <<>>
    ELSE <<"_">> \o <<"l", "a", "t">> \o FormatFixed(lat.v, precision)
         \o <<"_">> \o <<"l", "o", "n">> \o FormatFixed(lon.v, precision)

\* FilenameGenerator.format_gps(lat, lon, precision): "." becomes "p" and
\* "-" becomes "m"
format_gps(lat, lon, precision) ==
    IF ~lat.has \/ ~lon.has THEN <<>>
    ELSE LET lat_str == ReplaceChar(ReplaceChar(
                            <<"l", "a", "t">> \o FormatFixed(lat.v, precision),
                            ".", "p"), "-", "m")
             lon_str == ReplaceChar(ReplaceChar(
                            <<"l", "o", "n">> \o FormatFixed(lon.v, precision),
                            ".", "p"), "-", "m")
         IN  <<"_">> \o lat_str \o <<"_">> \o lon_str

\* strftime("%Y%m%d") and strftime("%H%M%S") of a datetime
DateStr(dt) == Pad(dt.Y, 4) \o Pad(dt.M, 2) \o Pad(dt.D, 2)

TimeStr(dt) == Pad(dt.h, 2) \o Pad(dt.m, 2) \o Pad(dt.s, 2)

\* FilenameGenerator.generate_filename(metadata) with DEFAULT_TEMPLATE
\* "{date}_{time}_{ms}{gps}_{original}" and include_camera off
generate_filename(metadata) ==
    IF ~metadata.date_time.has
      THEN sanitize_filename(metadata.original_name, MAX_FILENAME_LENGTH)
    ELSE LET dt == metadata.date_time.v
             formatted == DateStr(dt) \o <<"_">> \o TimeStr(dt) \o <<"_">>
                          \o Pad(metadata.milliseconds, 3)
                          \o format_gps(metadata.latitude, metadata.longitude,
                                        GPS_PRECISION)
                          \o <<"_">>
                          \o sanitize_filename(metadata.original_name,
                                               MAX_FILENAME_LENGTH)
             filename == Strip(CollapseRuns(formatted, {"_"}), {"_"})
         IN  sanitize_filename(filename, MAX_FILENAME_LENGTH)

----------------------------------------------------------------------------
(* Metadata of rename_images_by_exif_pro.py.  An EXIF map is a function    *)
(* from tag names to None or Some(value).  A date value is a text of one   *)
(* of the forms exiftool prints, with the moment it spells; a sub-second,  *)
(* a text; a coordinate, a number in units of 10^-4 degree or a text that  *)
(* is no number.                                                           *)

DATE_TAGS == <<"DateTimeOriginal", "CreateDate", "ModifyDate", "FileModifyDate">>

SUBSEC_TAGS == <<"SubSecTimeOriginal", "SubSecTime", "SubSecTimeDigitized">>

ExifTags == {"DateTimeOriginal", "CreateDate", "ModifyDate", "FileModifyDate",
             "SubSecTimeOriginal", "SubSecTime", "SubSecTimeDigitized",
             "GPSLatitude", "GPSLongitude"}

\* the value of the first tag of the list that is in the map, else None
RECURSIVE FirstPresent(_, _)
FirstPresent(exif, tags) ==
    IF tags = <<>> THEN None
    ELSE IF exif[tags[1]].has THEN exif[tags[1]]
    ELSE FirstPresent(exif, Tail(tags))

\* forms of a date value: "plain" is "YYYY:MM:DD HH:MM:SS", "frac" adds
\* ".ff", "zone" adds "+HH:MM" or "-HH:MM", "junk" is no date, "empty" is ""
\* or 0; "epoch" is a number datetime.fromtimestamp converts and "overflow"
\* a number it raises OverflowError for (1e19)
DateForms == {"plain", "frac", "zone", "junk", "empty", "epoch", "overflow"}

DateVal(form, dt) == [form |-> form, dt |-> dt]

\* the parse of extract_datetime, lines 239-252: the zone branch cuts the
\* text at the first "-", leaving the year alone, which strptime rejects
ParseDatePro(dv) ==
    IF dv.form \in {"plain", "frac", "epoch"} THEN Some(dv.dt) ELSE None

\* the exceptions the try of lines 239-252 does not catch
ParseRaisesPro(dv) == dv.form = "overflow"

IsDigit(c) == c \in {"0", "1", "2", "3", "4", "5", "6", "7", "8", "9"}

DigitVal(c) == CHOOSE d \in 0..9 : DigitChar(d) = c

\* int(text): None stands for ValueError
RECURSIVE IntOf(_)
IntOf(cs) ==
    IF cs = <<>> \/ \E i \in 1..Len(cs) : ~IsDigit(cs[i]) THEN None
    ELSE IF Len(cs) = 1 THEN Some(DigitVal(cs[1]))
    ELSE Some(10 * IntOf(SubSeq(cs, 1, Len(cs) - 1)).v + DigitVal(cs[Len(cs)]))

Take(cs, n) == SubSeq(cs, 1, IF Len(cs) < n THEN Len(cs) ELSE n)

\* the loop over SUBSEC_TAGS of extract_datetime, lines 255-265
RECURSIVE SubsecPro(_, _)
SubsecPro(exif, tags) ==
    IF tags = <<>> THEN 0
    ELSE IF exif[tags[1]].has /\ IntOf(Take(ZFill(exif[tags[1]].v, 3), 3)).has
      THEN IntOf(Take(ZFill(exif[tags[1]].v, 3), 3)).v
    ELSE SubsecPro(exif, Tail(tags))

\* MetadataExtractor.extract_datetime(exif): <<datetime or None, ms>>
extract_datetime(exif) ==
    LET dt_value == FirstPresent(exif, DATE_TAGS)
    IN  IF ~dt_value.has \/ dt_value.v.form = "empty" THEN <<None, 0>>
        ELSE IF ~ParseDatePro(dt_value.v).has THEN <<None, 0>>
        ELSE <<ParseDatePro(dt_value.v), SubsecPro(exif, SUBSEC_TAGS)>>

\* extract_datetime(exif) raises
extract_datetime_raises(exif) ==
    LET dt_value == FirstPresent(exif, DATE_TAGS)
    IN  dt_value.has /\ ParseRaisesPro(dt_value.v)

Coord(x) == [num |-> TRUE, x |-> x]

NotANumber == [num |-> FALSE, x |-> 0]

Abs(x) == IF x < 0 THEN -x ELSE x

\* MetadataExtractor.extract_gps(exif): <<lat, lon>>, each None or Some(x)
extract_gps(exif) ==
    LET lat == exif["GPSLatitude"]
        lon == exif["GPSLongitude"]
    IN  IF ~lat.has \/ ~lon.has THEN <<None, None>>
        ELSE IF ~lat.v.num \/ ~lon.v.num THEN <<None, None>>
        ELSE IF ~(-900000 <= lat.v.x /\ lat.v.x <= 900000) THEN <<None, None>>
        ELSE IF ~(-1800000 <= lon.v.x /\ lon.v.x <= 1800000) THEN <<None, None>>
        ELSE IF Abs(lat.v.x) < 100 /\ Abs(lon.v.x) < 100 THEN <<None, None>>
        ELSE <<Some(lat.v.x), Some(lon.v.x)>>

\* stat of a file: it raises, or gives st_ctime and, where the platform has
\* it, st_birthtime
Stat(raises, birth, ctime) == [raises |-> raises, birth |-> birth, ctime |-> ctime]

\* MetadataExtractor.get_fallback_datetime(filepath); now is datetime.now()
get_fallback_datetime(filepath, now) ==
    IF filepath.stat.raises THEN now
    ELSE IF filepath.stat.birth.has THEN filepath.stat.birth.v
    ELSE filepath.stat.ctime

\* MetadataExtractor.create_metadata(filepath, exif); exif is None when the
\* batch read has no map for the file; with raises set the call ends in the
\* exception of extract_datetime and there is no record
create_metadata(filepath, exif, now) ==
    LET dtms == IF exif.has THEN extract_datetime(exif.v) ELSE <<None, 0>>
        gps == IF exif.has THEN extract_gps(exif.v) ELSE <<None, None>>
        fromExif == dtms[1].has
    IN  [original_name |-> filepath.stem,
         raises |-> exif.has /\ extract_datetime_raises(exif.v),
         has_exif |-> exif.has,
         date_time |-> IF fromExif THEN dtms[1]
                       ELSE Some(get_fallback_datetime(filepath, now)),
         milliseconds |-> IF fromExif THEN dtms[2] ELSE 0,
         latitude |-> gps[1],
         longitude |-> gps[2]]

\* ImageMetadata.is_valid(); the error field is never assigned
is_valid(metadata) == metadata.date_time.has

\* the outcome of process_batch lines 636-643 for a file: the message of
\* add_error, or "" when the file goes on to be named
MetadataError(metadata) ==
    IF metadata.raises THEN "timestamp out of range for platform time_t"
    ELSE IF ~is_valid(metadata) THEN "Invalid metadata"
    ELSE ""

----------------------------------------------------------------------------
(* rename_images_by_exif.py *)

\* str.split() joined with "_": every run of whitespace becomes one "_"
\* (the text has been stripped of leading and trailing whitespace)
JoinSplit(cs) == CollapseRuns(cs, Whitespace)

\* safe_filename(s)
safe_filename(s) ==
    LET replaced == [i \in 1..Len(s) |->
                        IF s[i] \in Problematic THEN "_" ELSE s[i]]
    IN  JoinSplit(Strip(replaced, Whitespace))

\* the try of format_timestamp_from_exif, lines 98-110: a number goes
\* through fromtimestamp, of the texts only the plain form parses, and
\* every exception gives None
ParseDateSimple(dv) ==
    IF dv.form \in {"plain", "epoch"} THEN Some(dv.dt) ELSE None

\* f"{dt:%Y%m%d}_{dt:%H%M%S}_{msec:03d}"
TimestampStr(dt, msec) ==
    DateStr(dt) \o <<"_">> \o TimeStr(dt) \o <<"_">> \o Pad(msec, 3)

\* format_timestamp_from_exif(exif): the timestamp text or None
format_timestamp_from_exif(exif) ==
    LET dt_value == FirstPresent(exif, <<"DateTimeOriginal", "CreateDate", "ModifyDate">>)
        subsec == FirstPresent(exif, SUBSEC_TAGS)
        msec == IF subsec.has THEN IntOf(Take(subsec.v, 3)) ELSE Some(0)
    IN  IF ~dt_value.has \/ dt_value.v.form = "empty" THEN None
        ELSE IF ~ParseDateSimple(dt_value.v).has \/ ~msec.has THEN None
        ELSE Some(TimestampStr(ParseDateSimple(dt_value.v).v, msec.v))

\* format_latlon(exif): the GPS text or None; no range is checked
format_latlon(exif) ==
    LET lat == exif["GPSLatitude"]
        lon == exif["GPSLongitude"]
    IN  IF ~lat.has \/ ~lon.has THEN None
        ELSE IF ~lat.v.num \/ ~lon.v.num THEN None
        ELSE Some(<<"l", "a", "t">> \o FormatFixed(lat.v.x, 4) \o <<"_">>
                  \o <<"l", "o", "n">> \o FormatFixed(lon.v.x, 4))

\* get_fallback_ctime(filepath): the timestamp text; now is datetime.now()
get_fallback_ctime(filepath, now) ==
    IF filepath.stat.raises THEN TimestampStr(now, 0)
    ELSE IF filepath.stat.birth.has THEN TimestampStr(filepath.stat.birth.v, 0)
    ELSE TimestampStr(filepath.stat.ctime, 0)

EmptyExif == [t \in ExifTags |-> None]

\* process_file, lines 162-181: the base name and the extension; a file
\* exiftool gives nothing for has the empty map
SimpleTimestamp(filepath, exif, now) ==
    LET ts == format_timestamp_from_exif(IF exif.has THEN exif.v ELSE EmptyExif)
    IN  IF ts.has /\ ts.v # <<>> THEN ts.v
        ELSE get_fallback_ctime(filepath, now)

SimpleBaseName(filepath, exif, now) ==
    LET map == IF exif.has THEN exif.v ELSE EmptyExif
        ts_str == SimpleTimestamp(filepath, exif, now)
        latlon == format_latlon(map)
    IN  ts_str
        \o (IF latlon.has THEN <<"_">> \o latlon.v ELSE <<>>)
        \o <<"_">> \o safe_filename(filepath.stem)

----------------------------------------------------------------------------
(* The name session: one file, named by one of the two tools in            *)
(* successive runs, each run at its own time of day.                       *)

NameRuns == 2

DT(Y, M, D, h, m, s) == [Y |-> Y, M |-> M, D |-> D, h |-> h, m |-> m, s |-> s]

Captured == DT(2024, 3, 5, 14, 22, 1)

Created == DT(2023, 11, 9, 8, 7, 6)

Modified == DT(2024, 6, 7, 18, 19, 20)

Touched == DT(2025, 1, 2, 3, 4, 5)

\* the values datetime.now() takes in the runs
Clock == {DT(2026, 11, 2, 10, 0, 0), DT(2026, 11, 2, 10, 0, 1)}

\* the length of a long file stem, below the 255 a file system allows
LongStemLen == 190

LongStem == [i \in 1..LongStemLen |-> "x"]

Stems == {<<"I", "M", "G", "_", "5">>, <<"I", "M", "G", " ", "5">>,
          <<"a", ":", "_", "b">>, LongStem}

Suffixes == {<<".", "j", "p", "g">>, <<".", "J", "P", "G">>}

Stats == {Stat(TRUE, None, Touched), Stat(FALSE, None, Touched),
          Stat(FALSE, Some(Created), Touched)}

GpsPairs == {<<None, None>>,
             <<Some(Coord(377749)), Some(Coord(-1224194))>>,
             <<Some(Coord(10)), Some(Coord(-20))>>,
             <<Some(Coord(450000)), Some(Coord(900000))>>,
             <<Some(NotANumber), Some(Coord(900000))>>,
             <<Some(Coord(450000)), None>>,
             <<Some(Coord(910000)), Some(Coord(100000))>>,
             <<Some(Coord(-450000)), Some(Coord(1810000))>>,
             <<Some(Coord(900000)), Some(Coord(-1800000))>>,
             <<Some(Coord(0)), Some(Coord(500000))>>}

ExifMap(d1, d2, d3, d4, ss, g) ==
    [t \in ExifTags |->
        CASE t = "DateTimeOriginal" -> d1
          [] t = "CreateDate" -> d2
          [] t = "ModifyDate" -> d3
          [] t = "FileModifyDate" -> d4
          [] t = "SubSecTimeOriginal" -> ss
          [] t = "GPSLatitude" -> g[1]
          [] t = "GPSLongitude" -> g[2]
          [] OTHER -> None]

\* maps that differ in their dates, with the GPS of the example or none
DateMaps ==
    {ExifMap(d1, d2, d3, d4, ss, g) :
        d1 \in {None, Some(DateVal("plain", Captured)),
                Some(DateVal("zone", Captured)), Some(DateVal("empty", Captured)),
                Some(DateVal("epoch", Captured)), Some(DateVal("overflow", Captured))},
        d2 \in {None, Some(DateVal("plain", Created))},
        d3 \in {None, Some(DateVal("plain", Modified))},
        d4 \in {None, Some(DateVal("zone", Touched))},
        ss \in {None, Some(<<"1", "2", "3">>), Some(<<"5">>), Some(<<"a", "b">>)},
        g \in {<<None, None>>, <<Some(Coord(377749)), Some(Coord(-1224194))>>}}

\* maps that differ in their GPS, with the dates of the example
GpsMaps ==
    {ExifMap(Some(DateVal("plain", Captured)), None, None, None,
             Some(<<"1", "2", "3">>), g) : g \in GpsPairs}

ExifMaps == DateMaps \cup GpsMaps

\* the names of the source files: stem and suffix
Names == {<<st, <<".", "j", "p", "g">>>> : st \in Stems}
         \cup {<<<<"I", "M", "G", "_", "5">>, sx>> : sx \in Suffixes}

\* a source file: its name, what stat gives for it and what exiftool gives
NameFiles ==
    {[stem |-> n[1], suffix |-> n[2], stat |-> fs, exif |-> ex] :
        n \in Names, fs \in Stats,
        ex \in {None} \cup {Some(m) : m \in ExifMaps}}

InitName ==
    /\ env = EnvIdle
    /\ disk = [l \in Loc |-> NoFile]
    /\ stats = NoStats
    /\ hist = <<>>
    /\ rn = RnIdle
    /\ dd = DdIdle
    /\ ob = ObIdle
    /\ \E tool \in {"pro", "simple"}, f \in NameFiles :
          nm = [phase |-> "name", tool |-> tool, file |-> f, runs |-> <<>>]

\* ImageRenamer.process_batch, lines 636-649 and 681-685: the metadata,
\* and unless creating it raised or it is invalid (the file is then
\* recorded as an error) the new base name and the new extension of one file
pro_derive(now) ==
    /\ nm.phase = "name" /\ nm.tool = "pro"
    /\ Len(nm.runs) < NameRuns
    /\ LET metadata == create_metadata(nm.file, nm.file.exif, now)
       IN  nm' = [nm EXCEPT !.runs = Append(@,
                    [base |-> IF MetadataError(metadata) = ""
                                THEN generate_filename(metadata) ELSE <<>>,
                     ext |-> Lower(nm.file.suffix),
                     now |-> now,
                     metadata |-> metadata,
                     error |-> MetadataError(metadata)])]
    /\ UNCHANGED <<env, disk, stats, hist, rn, dd, ob>>

\* process_file, lines 162-181
simple_derive(now) ==
    /\ nm.phase = "name" /\ nm.tool = "simple"
    /\ Len(nm.runs) < NameRuns
    /\ nm' = [nm EXCEPT !.runs = Append(@,
                [base |-> SimpleBaseName(nm.file, nm.file.exif, now),
                 ext |-> Lower(nm.file.suffix),
                 now |-> now,
                 ts_str |-> SimpleTimestamp(nm.file, nm.file.exif, now)])]
    /\ UNCHANGED <<env, disk, stats, hist, rn, dd, ob>>

NextName == \E now \in Clock : pro_derive(now) \/ simple_derive(now)

SpecName == InitName /\ [][NextName]_vars

----------------------------------------------------------------------------
(* The rename batch: a sorted list of source files, the files on disk (a   *)
(* set of path and content pairs), and for each source file how far the    *)
(* loop has taken it.                                                      *)

MaxFiles == 3

MaxTaken == 2

Paths(fs) == {e.path : e \in fs}

\* f"{base_name}{extension}" for counter 0, f"{base_name}-{counter}{extension}"
\* otherwise, under dest_dir
Candidate(dest_dir, base_name, extension, counter) ==
    dest_dir \o "/" \o Str(base_name)
    \o (IF counter = 0 THEN "" ELSE "-" \o Str(Digits(counter)))
    \o Str(extension)

\* the while loop of get_unique_path and of unique_target_path
RECURSIVE UniqueFrom(_, _, _, _, _, _)
UniqueFrom(existing, dest_dir, base_name, extension, candidate, counter) ==
    IF candidate \notin existing THEN candidate
    ELSE UniqueFrom(existing, dest_dir, base_name, extension,
                    Candidate(dest_dir, base_name, extension, counter),
                    counter + 1)

\* a unique-path step that tests existence once and never tests "-1"
get_unique_path_once(existing, dest_dir, base_name, extension) ==
    IF Candidate(dest_dir, base_name, extension, 0) \notin existing
      THEN Candidate(dest_dir, base_name, extension, 0)
      ELSE Candidate(dest_dir, base_name, extension, 1)

\* FileOperations.get_unique_path(dest_dir, base_name, extension) on a disk
\* holding the paths of existing
get_unique_path(existing, dest_dir, base_name, extension) ==
    UniqueFrom(existing, dest_dir, base_name, extension,
               Candidate(dest_dir, base_name, extension, 0), 1)

\* unique_target_path(dest_dir, base_name, ext) of rename_images_by_exif.py
unique_target_path(existing, dest_dir, base_name, ext) ==
    UniqueFrom(existing, dest_dir, base_name, ext,
               Candidate(dest_dir, base_name, ext, 0), 1)

\* shutil.move(src, dest) and shutil.copy2(src, dest) on the disk: the
\* destination, existing or not, gets the content of the source
MoveOrCopy(fs, src, dest, copy_mode) ==
    LET content == (CHOOSE e \in fs : e.path = src).id
        kept == {e \in fs : e.path # dest /\ (copy_mode \/ e.path # src)}
    IN  kept \cup {[path |-> dest, id |-> content]}

ExampleExif ==
    [t \in ExifTags |->
        CASE t = "DateTimeOriginal" -> Some(DateVal("plain", Captured))
          [] t = "SubSecTimeOriginal" -> Some(<<"1", "2", "3">>)
          [] t = "GPSLatitude" -> Some(Coord(377749))
          [] t = "GPSLongitude" -> Some(Coord(-1224194))
          [] OTHER -> None]

BatchFile(dir, stem, suffix) ==
    [dir |-> dir, stem |-> stem, suffix |-> suffix,
     stat |-> Stat(FALSE, None, Touched), exif |-> Some(ExampleExif)]

\* the image files of the tree under "in", in the order collect_image_files
\* sorts them
BatchPool ==
    << BatchFile("in", <<"I", "M", "G", " ", "5">>, <<".", "j", "p", "g">>),
       BatchFile("in", <<"I", "M", "G", "_", "5">>, <<".", "J", "P", "G">>),
       BatchFile("in", <<"I", "M", "G", "_", "5">>, <<".", "p", "n", "g">>),
       BatchFile("in/sub", <<"I", "M", "G", "_", "5">>, <<".", "j", "p", "g">>) >>

SourcePath(f) == f.dir \o "/" \o Str(f.stem) \o Str(f.suffix)

\* the members of the pool picked by S, in the order of the pool
Picked(S) ==
    [k \in 1..Cardinality(S) |->
        BatchPool[CHOOSE i \in S : Cardinality({j \in S : j < i}) = k - 1]]

\* new_base and new_ext of a file, process_batch lines 636-649 and
\* process_file lines 162-181
NewBase(tool, f, now) ==
    IF tool = "pro" THEN generate_filename(create_metadata(f, f.exif, now))
    ELSE SimpleBaseName(f, f.exif, now)

NewExt(f) == Lower(f.suffix)

\* target_dir, process_batch lines 652-660 (preserve_structure off) and
\* main line 256
TargetDir(dest, f) == IF dest.has THEN dest.v ELSE f.dir

Files == IF rn.phase = "batch" THEN 1..Len(rn.files) ELSE {}

InFlight == {i \in Files : rn.st[i] = "planned"}

\* the value of datetime.now() during the batch
BatchClock == {DT(2026, 11, 2, 10, 0, 0)}

InitRename ==
    /\ env = EnvIdle
    /\ disk = [l \in Loc |-> NoFile]
    /\ stats = NoStats
    /\ hist = <<>>
    /\ nm = NmIdle
    /\ dd = DdIdle
    /\ ob = ObIdle
    /\ \E tool \in {"pro", "simple"}, copy_mode \in BOOLEAN, dry_run \in BOOLEAN,
          max_workers \in {1, 4}, dest \in {None, Some("out")},
          S \in SUBSET (1..Len(BatchPool)), K \in SUBSET (0..MaxTaken) :
          /\ 1 <= Cardinality(S) /\ Cardinality(S) <= MaxFiles
          /\ LET files == Picked(S)
                 sources == {[path |-> SourcePath(files[i]), id |-> i] :
                                i \in 1..Len(files)}
                 taken == {[path |-> Candidate(TargetDir(dest, files[1]),
                                       NewBase(tool, files[1], Captured),
                                       NewExt(files[1]), k),
                            id |-> 100 + k] : k \in K}
             IN  rn = [phase |-> "batch", tool |-> tool,
                       copy_mode |-> copy_mode, dry_run |-> dry_run,
                       max_workers |-> max_workers, dest |-> dest,
                       files |-> files,
                       fs0 |-> sources \cup taken,
                       fs |-> sources \cup taken,
                       st |-> [i \in 1..Len(files) |-> "todo"],
                       new_path |-> [i \in 1..Len(files) |-> ""],
                       processed |-> 0, errors |-> 0, error_details |-> 0,
                       overwritten |-> {}, exit |-> -1]

\* a pool of max_workers workers taking the files up in order
NextInLoop_pool(i) ==
    /\ rn.st[i] = "todo"
    /\ \A j \in Files : j < i => rn.st[j] # "todo"
    /\ Cardinality(InFlight) < rn.max_workers

\* "for filepath in files", process_batch line 633 and main line 255: file i
\* is taken up when every file before it is finished
NextInLoop(i) ==
    /\ rn.st[i] = "todo"
    /\ \A j \in Files : j < i => rn.st[j] \notin {"todo", "planned"}

\* process_batch, lines 636-674: one file up to its unique destination
\* path, and the preview of a dry run
process_batch_plan(i, now) ==
    /\ rn.phase = "batch" /\ rn.tool = "pro"
    /\ NextInLoop(i)
    /\ LET f == rn.files[i]
           metadata == create_metadata(f, f.exif, now)
           new_path == get_unique_path(Paths(rn.fs), TargetDir(rn.dest, f),
                                       NewBase("pro", f, now), NewExt(f))
       IN  IF MetadataError(metadata) # ""
             THEN rn' = [rn EXCEPT !.st[i] = "err",
                                   !.errors = @ + 1,
                                   !.error_details = @ + 1]
             ELSE rn' = [rn EXCEPT
                    !.new_path[i] = new_path,
                    !.st[i] = IF rn.dry_run THEN "dry" ELSE "planned",
                    !.processed = IF rn.dry_run THEN @ + 1 ELSE @]
    /\ UNCHANGED <<env, disk, stats, hist, nm, dd, ob>>

\* process_batch, lines 676-685: rename_file moves or copies; when it
\* raises the file is counted as an error and recorded with add_error
process_batch_commit(i, raises) ==
    /\ rn.phase = "batch" /\ rn.tool = "pro"
    /\ rn.st[i] = "planned"
    /\ IF raises
         THEN rn' = [rn EXCEPT !.st[i] = "err",
                               !.errors = @ + 1,
                               !.error_details = @ + 1]
         ELSE rn' = [rn EXCEPT
                       !.st[i] = "ok",
                       !.fs = MoveOrCopy(rn.fs, SourcePath(rn.files[i]),
                                         rn.new_path[i], rn.copy_mode),
                       !.overwritten = IF rn.new_path[i] \in Paths(rn.fs)
                                         THEN @ \cup {rn.new_path[i]} ELSE @,
                       !.processed = @ + 1]
    /\ UNCHANGED <<env, disk, stats, hist, nm, dd, ob>>

\* process_files, lines 733-750, once the batch is through: the counts
\* process_batch returns are added to self.stats, whose errors add_error has
\* advanced already, and skipped is what is left of total; main, lines
\* 953-967, prints them and exits
process_files ==
    /\ rn.phase = "batch" /\ rn.tool = "pro"
    /\ \A i \in Files : rn.st[i] \notin {"todo", "planned"}
    /\ LET total == Len(rn.files)
           processed == rn.processed
           errors == rn.error_details + rn.errors
       IN  stats' = [total |-> total, processed |-> processed,
                     skipped |-> total - processed - errors, errors |-> errors]
    /\ rn' = [rn EXCEPT !.phase = "done",
                        !.exit = IF rn.error_details + rn.errors = 0 THEN 0 ELSE 1]
    /\ UNCHANGED <<env, disk, hist, nm, dd, ob>>

\* process_file, lines 162-187
process_file_plan(i, now) ==
    /\ rn.phase = "batch" /\ rn.tool = "simple"
    /\ NextInLoop(i)
    /\ LET f == rn.files[i]
           target_path == unique_target_path(Paths(rn.fs), TargetDir(rn.dest, f),
                                             NewBase("simple", f, now), NewExt(f))
       IN  rn' = [rn EXCEPT
                    !.new_path[i] = target_path,
                    !.st[i] = IF rn.dry_run THEN "dry" ELSE "planned"]
    /\ UNCHANGED <<env, disk, stats, hist, nm, dd, ob>>

\* process_file, lines 189-200: an exception of the move or copy is
\* printed and nothing else
process_file_commit(i, raises) ==
    /\ rn.phase = "batch" /\ rn.tool = "simple"
    /\ rn.st[i] = "planned"
    /\ IF raises
         THEN rn' = [rn EXCEPT !.st[i] = "err"]
         ELSE rn' = [rn EXCEPT
                       !.st[i] = "ok",
                       !.fs = MoveOrCopy(rn.fs, SourcePath(rn.files[i]),
                                         rn.new_path[i], rn.copy_mode),
                       !.overwritten = IF rn.new_path[i] \in Paths(rn.fs)
                                         THEN @ \cup {rn.new_path[i]} ELSE @]
    /\ UNCHANGED <<env, disk, stats, hist, nm, dd, ob>>

NextRename ==
    \/ \E i \in Files, now \in BatchClock : process_batch_plan(i, now)
    \/ \E i \in Files, raises \in BOOLEAN : process_batch_commit(i, raises)
    \/ process_files
    \/ \E i \in Files, now \in BatchClock : process_file_plan(i, now)
    \/ \E i \in Files, raises \in BOOLEAN : process_file_commit(i, raises)

SpecRename == InitRename /\ [][NextRename]_vars

----------------------------------------------------------------------------
(* remove_macos_duplicates.py: names, paths and the grouping by pattern.   *)
(* A path is a directory (a sequence of parts) and a file name, each part  *)
(* and the name a sequence of characters.                                  *)

\* the characters of the file names of the model, in the order of their codes
Ascii == <<"\t", " ", ".", "0", "1", "2", "3", "4", "5", "6", "7", "8", "9",
           "A", "B", "C", "D", "E", "F", "G", "H", "I", "J", "K", "L", "M",
           "N", "O", "P", "Q", "R", "S", "T", "U", "V", "W", "X", "Y", "Z",
           "_",
           "a", "b", "c", "d", "e", "f", "g", "h", "i", "j", "k", "l", "m",
           "n", "o", "p", "q", "r", "s", "t", "u", "v", "w", "x", "y", "z">>

Rank(c) == CHOOSE k \in 1..Len(Ascii) : Ascii[k] = c

\* a < b for two texts, as Python compares str
RECURSIVE StrLess(_, _)
StrLess(a, b) ==
    IF b = <<>> THEN FALSE
    ELSE IF a = <<>> THEN TRUE
    ELSE IF a[1] = b[1] THEN StrLess(Tail(a), Tail(b))
    ELSE Rank(a[1]) < Rank(b[1])

\* p < q for two sequences of parts, as pathlib compares Path
RECURSIVE PartsLess(_, _)
PartsLess(p, q) ==
    IF q = <<>> THEN FALSE
    ELSE IF p = <<>> THEN TRUE
    ELSE IF p[1] = q[1] THEN PartsLess(Tail(p), Tail(q))
    ELSE StrLess(p[1], q[1])

File(dir, name) == [dir |-> dir, name |-> name]

PathLess(f, g) == PartsLess(f.dir \o <<f.name>>, g.dir \o <<g.name>>)

\* the index of the last "." of a name, 0 if it has none
LastDot(name) ==
    IF \E i \in 1..Len(name) : name[i] = "."
      THEN CHOOSE i \in 1..Len(name) :
              name[i] = "." /\ \A k \in (i + 1)..Len(name) : name[k] # "."
      ELSE 0

\* Path.suffix: the final component's last "." and what follows it, unless
\* the "." opens or closes the name
Suffix(name) ==
    IF LastDot(name) > 1 /\ LastDot(name) < Len(name)
      THEN SubSeq(name, LastDot(name), Len(name)) ELSE <<>>

IMAGE_EXTENSIONS == {<<".", "j", "p", "g">>, <<".", "j", "p", "e", "g">>,
                     <<".", "p", "n", "g">>, <<".", "g", "i", "f">>,
                     <<".", "h", "e", "i", "c">>}

\* the characters \s matches
RegexSpace == {" ", "\t"}

\* DUPLICATE_PATTERN.match(filename), ^(.+)\s+(\d+)(\.[^.]+)$ : the last "."
\* opens group 3, the longest run of digits before it is group 2, the
\* character before the run is white space and group 1, not empty, is all
\* that precedes this character
DUPLICATE_PATTERN(filename) ==
    LET dot == LastDot(filename)
        start == IF dot = 0 THEN 0
                 ELSE CHOOSE i \in 1..dot :
                        /\ \A k \in i..(dot - 1) : IsDigit(filename[k])
                        /\ (i > 1 => ~IsDigit(filename[i - 1]))
        ok == /\ dot >= 1 /\ dot < Len(filename)
              /\ start < dot
              /\ start >= 3
              /\ filename[start - 1] \in RegexSpace
    IN  IF ok THEN [matched |-> TRUE,
                    base_name |-> SubSeq(filename, 1, start - 2),
                    copy_num |-> IntOf(SubSeq(filename, start, dot - 1)).v,
                    extension |-> SubSeq(filename, dot, Len(filename))]
        ELSE [matched |-> FALSE]

\* original_name = f"{base_name}{extension}" of a matching name
OriginalName(filename) ==
    DUPLICATE_PATTERN(filename).base_name \o DUPLICATE_PATTERN(filename).extension

\* the list sorted by path alone
RECURSIVE SortedDups_by_path(_)
SortedDups_by_path(S) ==
    IF S = {} THEN <<>>
    ELSE LET first == CHOOSE x \in S : \A y \in S \ {x} : PathLess(x.path, y.path)
         IN  <<first>> \o SortedDups_by_path(S \ {first})

\* sorted(dup_list): by copy number, then by path
RECURSIVE SortedDups(_)
SortedDups(S) ==
    IF S = {} THEN <<>>
    ELSE LET first == CHOOSE x \in S : \A y \in S \ {x} :
                          \/ x.copy_num < y.copy_num
                          \/ x.copy_num = y.copy_num /\ PathLess(x.path, y.path)
         IN  <<first>> \o SortedDups(S \ {first})

PathsOf(pairs) == [k \in 1..Len(pairs) |-> pairs[k].path]

\* the keys of the dict duplicates in insertion order: the original names of
\* the matching files of the listing, each at its first occurrence
RECURSIVE DuplicateKeys(_)
DuplicateKeys(files) ==
    IF files = <<>> THEN <<>>
    ELSE LET before == DuplicateKeys(SubSeq(files, 1, Len(files) - 1))
             last == files[Len(files)].name
         IN  IF DUPLICATE_PATTERN(last).matched
                /\ \A k \in 1..Len(before) : before[k] # OriginalName(last)
               THEN Append(before, OriginalName(last))
               ELSE before

\* duplicates[original_name] as a set of (copy_num, path)
DupList(files, original_name) ==
    {[copy_num |-> DUPLICATE_PATTERN(files[i].name).copy_num, path |-> files[i]] :
        i \in {k \in 1..Len(files) :
                 /\ DUPLICATE_PATTERN(files[k].name).matched
                 /\ OriginalName(files[k].name) = original_name}}

\* originals[original_name]: the last file of the listing that has this name
\* and does not match the pattern, or None
OriginalAt(files, original_name) ==
    LET S == {k \in 1..Len(files) :
                 /\ ~DUPLICATE_PATTERN(files[k].name).matched
                 /\ files[k].name = original_name}
    IN  IF S = {} THEN None
        ELSE Some(files[CHOOSE k \in S : \A j \in S : j <= k])

\* the group of a key when the pseudo-original stays in its own list
GroupsOfKey_keep_first(files, original_name) ==
    LET sorted == SortedDups(DupList(files, original_name))
        original == OriginalAt(files, original_name)
    IN  IF original.has
          THEN <<[canonical |-> original.v, copies |-> PathsOf(sorted)]>>
        ELSE IF Len(sorted) > 1
          THEN <<[canonical |-> sorted[1].path, copies |-> PathsOf(sorted)]>>
        ELSE <<>>

\* lines 115-130 for one key: the group of the key, or no group
GroupsOfKey(files, original_name) ==
    LET sorted == SortedDups(DupList(files, original_name))
        original == OriginalAt(files, original_name)
    IN  IF original.has
          THEN <<[canonical |-> original.v, copies |-> PathsOf(sorted)]>>
        ELSE IF Len(sorted) > 1
          THEN <<[canonical |-> sorted[1].path,
                  copies |-> PathsOf(Tail(sorted))]>>
        ELSE <<>>

RECURSIVE GroupsOfKeys(_, _)
GroupsOfKeys(files, keys) ==
    IF keys = <<>> THEN <<>>
    ELSE GroupsOfKey(files, keys[1]) \o GroupsOfKeys(files, Tail(keys))

\* the files the scan lists: regular files with an image suffix, of the
\* folder alone or of the tree under it
Listing(scan, folder, recursive) ==
    SelectSeq(scan, LAMBDA f :
        /\ Lower(Suffix(f.name)) \in IMAGE_EXTENSIONS
        /\ (recursive \/ f.dir = folder))

\* find_duplicates_by_pattern(folder, recursive): the groups in the order of
\* the dict result; scan is the order in which glob yields the files
find_duplicates_by_pattern(scan, folder, recursive) ==
    LET files == Listing(scan, folder, recursive)
    IN  GroupsOfKeys(files, DuplicateKeys(files))

----------------------------------------------------------------------------
(* remove_macos_duplicates.py: contents, digests, verification, removal.   *)
(* The content of a file is its size and what its first 64KB, its last     *)
(* 64KB and the bytes between hold; the disk is a set of path and content. *)

Chunk == 65536

Data(size, head, mid, tail) == [size |-> size, head |-> head, mid |-> mid, tail |-> tail]

\* the digest of the whole file in either mode
get_file_hash_always_full(data, quick) ==
    <<"full", data.size, data.head, data.mid, data.tail>>

\* get_file_hash(filepath, quick): equal digests stand for equal input of
\* the hasher
get_file_hash(data, quick) ==
    IF quick
      THEN <<"quick", data.head, data.size, IF data.size > Chunk THEN data.tail ELSE 0>>
      ELSE <<"full", data.size, data.head, data.mid, data.tail>>

DataAt(fs, path) == (CHOOSE e \in fs : e.path = path).data

Exists(fs, path) == \E e \in fs : e.path = path

\* the loop with the digest of a copy computed ahead of the size check
RECURSIVE VerifyCopies_hash_first(_, _, _, _)
VerifyCopies_hash_first(fs, original, copies, quick) ==
    IF copies = <<>> THEN [kept |-> <<>>, hashed |-> {}, size_mismatch |-> {},
                           hash_mismatch |-> {}]
    ELSE LET rest == VerifyCopies_hash_first(fs, original, Tail(copies), quick)
             copy_path == copies[1]
             seen == [rest EXCEPT !.hashed = @ \cup {copy_path}]
         IN  IF ~Exists(fs, copy_path) THEN rest
             ELSE IF DataAt(fs, copy_path).size # DataAt(fs, original).size
               THEN [seen EXCEPT !.size_mismatch = @ \cup {copy_path}]
             ELSE IF get_file_hash(DataAt(fs, copy_path), quick)
                       = get_file_hash(DataAt(fs, original), quick)
               THEN [seen EXCEPT !.kept = <<copy_path>> \o @]
             ELSE [seen EXCEPT !.hash_mismatch = @ \cup {copy_path}]

\* the loop over the copies of one group, lines 154-170: the copies kept,
\* the copies whose digest was computed and the reason each other one is
\* dropped for
RECURSIVE VerifyCopies(_, _, _, _)
VerifyCopies(fs, original, copies, quick) ==
    IF copies = <<>> THEN [kept |-> <<>>, hashed |-> {}, size_mismatch |-> {},
                           hash_mismatch |-> {}]
    ELSE LET rest == VerifyCopies(fs, original, Tail(copies), quick)
             copy_path == copies[1]
         IN  IF ~Exists(fs, copy_path) THEN rest
             ELSE IF DataAt(fs, copy_path).size # DataAt(fs, original).size
               THEN [rest EXCEPT !.size_mismatch = @ \cup {copy_path}]
             ELSE IF get_file_hash(DataAt(fs, copy_path), quick)
                       = get_file_hash(DataAt(fs, original), quick)
               THEN [rest EXCEPT !.kept = <<copy_path>> \o @,
                                 !.hashed = @ \cup {copy_path}]
             ELSE [rest EXCEPT !.hashed = @ \cup {copy_path},
                               !.hash_mismatch = @ \cup {copy_path}]

\* the verification that keeps a group whose copies were all dropped
RECURSIVE verify_duplicates_by_hash_keep_empty(_, _, _)
verify_duplicates_by_hash_keep_empty(fs, duplicates, quick_hash) ==
    IF duplicates = <<>> THEN [verified |-> <<>>, hashed |-> {},
                               size_mismatch |-> {}, hash_mismatch |-> {}]
    ELSE LET rest == verify_duplicates_by_hash_keep_empty(fs, Tail(duplicates),
                                                          quick_hash)
             original == duplicates[1].canonical
             v == VerifyCopies(fs, original, duplicates[1].copies, quick_hash)
         IN  IF ~Exists(fs, original) THEN rest
             ELSE [verified |-> <<[canonical |-> original, copies |-> v.kept]>>
                                \o rest.verified,
                   hashed |-> {original} \cup v.hashed \cup rest.hashed,
                   size_mismatch |-> v.size_mismatch \cup rest.size_mismatch,
                   hash_mismatch |-> v.hash_mismatch \cup rest.hash_mismatch]

\* verify_duplicates_by_hash(duplicates, quick_hash): the verified groups,
\* with the paths hashed and the mismatches printed on the way
RECURSIVE verify_duplicates_by_hash(_, _, _)
verify_duplicates_by_hash(fs, duplicates, quick_hash) ==
    IF duplicates = <<>> THEN [verified |-> <<>>, hashed |-> {},
                               size_mismatch |-> {}, hash_mismatch |-> {}]
    ELSE LET rest == verify_duplicates_by_hash(fs, Tail(duplicates), quick_hash)
             original == duplicates[1].canonical
             v == VerifyCopies(fs, original, duplicates[1].copies, quick_hash)
         IN  IF ~Exists(fs, original) THEN rest
             ELSE [verified |-> (IF v.kept # <<>>
                                   THEN <<[canonical |-> original, copies |-> v.kept]>>
                                   ELSE <<>>) \o rest.verified,
                   hashed |-> {original} \cup v.hashed \cup rest.hashed,
                   size_mismatch |-> v.size_mismatch \cup rest.size_mismatch,
                   hash_mismatch |-> v.hash_mismatch \cup rest.hash_mismatch]

\* Path.stem of a name
Stem(name) ==
    IF Suffix(name) = <<>> THEN name ELSE SubSeq(name, 1, LastDot(name) - 1)

\* f"{copy_path.stem}_{counter}{copy_path.suffix}"
TrashName(name, counter) ==
    IF counter = 0 THEN name
    ELSE Stem(name) \o <<"_">> \o Digits(counter) \o Suffix(name)

\* the copy's own name in the trash directory, taken or not
TrashDest_same_name(fs, trash_dir, name, counter) == File(trash_dir, name)

\* lines 215-220: the free name in the trash directory
RECURSIVE TrashDest(_, _, _, _)
TrashDest(fs, trash_dir, name, counter) ==
    IF ~Exists(fs, File(trash_dir, TrashName(name, counter)))
      THEN File(trash_dir, TrashName(name, counter))
      ELSE TrashDest(fs, trash_dir, name, counter + 1)

\* every file of every group, the original included
RECURSIVE AllCopies_and_original(_)
AllCopies_and_original(groups) ==
    IF groups = <<>> THEN <<>>
    ELSE <<groups[1].canonical>> \o groups[1].copies
         \o AllCopies_and_original(Tail(groups))

\* the copies in the order remove_duplicates goes through them
RECURSIVE AllCopies(_)
AllCopies(groups) ==
    IF groups = <<>> THEN <<>> ELSE groups[1].copies \o AllCopies(Tail(groups))

----------------------------------------------------------------------------
(* The duplicate removal session: main of remove_macos_duplicates.py over  *)
(* a folder, step by step.                                                 *)

MaxListed == 3

Folder == <<<<"d">>>>

SubFolder == <<<<"d">>, <<"s", "u", "b">>>>

TrashFolder == Folder \o <<<<"_", "d", "u", "p", "l", "i", "c", "a", "t", "e", "s",
                             "_", "t", "r", "a", "s", "h">>>>

PoolPaths ==
    {File(Folder, <<"p", "h", "o", "t", "o", ".", "j", "p", "g">>),
     File(Folder, <<"p", "h", "o", "t", "o", " ", "2", ".", "j", "p", "g">>),
     File(Folder, <<"p", "h", "o", "t", "o", " ", "3", ".", "j", "p", "g">>),
     File(Folder, <<"p", "h", "o", "t", "o", " ", "1", "0", ".", "j", "p", "g">>),
     File(Folder, <<"x", " ", "2", ".", "j", "p", "g">>),
     File(Folder, <<"x", " ", "5", ".", "j", "p", "g">>),
     File(Folder, <<"a", " ", "2", ".", "j", "p", "g">>),
     File(Folder, <<"a", " ", "2", " ", "3", ".", "j", "p", "g">>),
     File(Folder, <<"a", " ", "2", " ", "4", ".", "j", "p", "g">>),
     File(SubFolder, <<"p", "h", "o", "t", "o", ".", "j", "p", "g">>),
     File(SubFolder, <<"p", "h", "o", "t", "o", " ", "2", ".", "j", "p", "g">>)}

LargeData == Data(100000, 1, 1, 1)

SmallData == Data(1000, 1, 0, 0)

\* contents a copy can have next to an original holding LargeData or
\* SmallData: the same, or another size, head, middle or tail
Contents == {LargeData, SmallData, Data(100000, 2, 1, 1), Data(100000, 1, 2, 1),
             Data(100000, 1, 1, 2), Data(1000, 2, 0, 0)}

Photo == File(Folder, <<"p", "h", "o", "t", "o", ".", "j", "p", "g">>)

Photo2 == File(Folder, <<"p", "h", "o", "t", "o", " ", "2", ".", "j", "p", "g">>)

Photo3 == File(Folder, <<"p", "h", "o", "t", "o", " ", "3", ".", "j", "p", "g">>)

X2 == File(Folder, <<"x", " ", "2", ".", "j", "p", "g">>)

X5 == File(Folder, <<"x", " ", "5", ".", "j", "p", "g">>)

DdStart(scan, fs, recursive, verify_hash, full_hash, dry_run, use_trash) ==
    [phase |-> "find", scan |-> scan, fs0 |-> fs, fs |-> fs,
     recursive |-> recursive, verify_hash |-> verify_hash,
     full_hash |-> full_hash, dry_run |-> dry_run, use_trash |-> use_trash,
     found |-> <<>>, groups |-> <<>>, todo |-> <<>>, next |-> 1,
     hashed |-> {}, size_mismatch |-> {}, hash_mismatch |-> {},
     mkdir |-> FALSE, files_removed |-> 0, failed |-> {}, exit |-> -1]

\* the paths of S in ascending order
RECURSIVE Ascending(_)
Ascending(S) ==
    IF S = {} THEN <<>>
    ELSE LET first == CHOOSE x \in S : \A y \in S \ {x} : PathLess(x, y)
         IN  <<first>> \o Ascending(S \ {first})

Reverse(q) == [k \in 1..Len(q) |-> q[Len(q) + 1 - k]]

\* folders that differ in their files and in the order glob yields them
\* (ascending or descending)
InitListing ==
    \E S \in SUBSET PoolPaths, backwards \in BOOLEAN,
       recursive \in BOOLEAN, dry_run \in BOOLEAN :
        /\ 1 <= Cardinality(S) /\ Cardinality(S) <= MaxListed
        /\ dd = DdStart(IF backwards THEN Reverse(Ascending(S)) ELSE Ascending(S),
                        {[path |-> f, data |-> LargeData] : f \in S},
                        recursive, FALSE, FALSE, dry_run, FALSE)

\* one folder whose files differ in their contents
InitContents ==
    \E c0 \in {LargeData, SmallData}, c2 \in Contents, c3 \in Contents, c5 \in Contents,
       full_hash \in BOOLEAN, dry_run \in BOOLEAN, use_trash \in BOOLEAN :
        dd = DdStart(<<Photo3, X5, Photo, Photo2, X2>>,
                     {[path |-> Photo, data |-> c0], [path |-> Photo2, data |-> c2],
                      [path |-> Photo3, data |-> c3], [path |-> X2, data |-> LargeData],
                      [path |-> X5, data |-> c5]},
                     FALSE, TRUE, full_hash, dry_run, use_trash)

SubPhoto2 == File(SubFolder, <<"p", "h", "o", "t", "o", " ", "2", ".", "j", "p", "g">>)

\* what the trash directory can hold from earlier runs
TrashPool == {File(TrashFolder, TrashName(Photo2.name, 0)),
              File(TrashFolder, TrashName(Photo2.name, 1))}

\* the content of the file first found at a path: no two files are alike
OwnData(f) == Data(100000, <<f.dir, f.name>>, 1, 1)

\* a tree with photo 2.jpg in two directories and a trash directory that
\* earlier runs may have filled; a recursive scan lists the trash too
InitTrash ==
    \E K \in SUBSET TrashPool, recursive \in BOOLEAN :
        dd = DdStart(Ascending({Photo, Photo2, Photo3, SubPhoto2} \cup K),
                     {[path |-> f, data |-> OwnData(f)] :
                        f \in {Photo, Photo2, Photo3, SubPhoto2} \cup K},
                     recursive, FALSE, FALSE, FALSE, TRUE)

\* names next to photo.jpg that are close to the copy pattern
OddNames ==
    {File(Folder, <<"p", "h", "o", "t", "o", " ", "0", ".", "j", "p", "g">>),
     File(Folder, <<"p", "h", "o", "t", "o", " ", "0", "2", ".", "j", "p", "g">>),
     File(Folder, <<"p", "h", "o", "t", "o", "\t", "2", ".", "j", "p", "g">>),
     File(Folder, <<"p", "h", "o", "t", "o", " ", " ", "2", ".", "j", "p", "g">>),
     File(Folder, <<"p", "h", "o", "t", "o", "2", ".", "j", "p", "g">>),
     File(Folder, <<" ", "2", ".", "j", "p", "g">>)}

\* a folder holding photo.jpg and one such file
InitNames ==
    \E f \in OddNames, backwards \in BOOLEAN, dry_run \in BOOLEAN :
        dd = DdStart(IF backwards THEN <<f, Photo>> ELSE <<Photo, f>>,
                     {[path |-> Photo, data |-> LargeData],
                      [path |-> f, data |-> LargeData]},
                     FALSE, FALSE, FALSE, dry_run, FALSE)

InitDedup ==
    /\ env = EnvIdle
    /\ disk = [l \in Loc |-> NoFile]
    /\ stats = NoStats
    /\ hist = <<>>
    /\ nm = NmIdle
    /\ rn = RnIdle
    /\ ob = ObIdle
    /\ (InitListing \/ InitContents \/ InitTrash \/ InitNames)

CopyCount(groups) == Len(AllCopies(groups))

\* main, lines 288-292: the grouping; with no group the run ends
main_find ==
    /\ dd.phase = "find"
    /\ LET duplicates == find_duplicates_by_pattern(dd.scan, Folder, dd.recursive)
       IN  dd' = [dd EXCEPT
                    !.found = duplicates,
                    !.groups = duplicates,
                    !.todo = AllCopies(duplicates),
                    !.phase = IF duplicates = <<>> THEN "done"
                              ELSE IF dd.verify_hash THEN "verify" ELSE "remove",
                    !.exit = IF duplicates = <<>> THEN 0 ELSE @]
    /\ UNCHANGED <<env, disk, stats, hist, nm, rn, ob>>

\* main, lines 305-314: the verification; with no verified copy the run ends
main_verify ==
    /\ dd.phase = "verify"
    /\ LET v == verify_duplicates_by_hash(dd.fs, dd.groups, ~dd.full_hash)
       IN  dd' = [dd EXCEPT
                    !.groups = v.verified,
                    !.todo = AllCopies(v.verified),
                    !.hashed = v.hashed,
                    !.size_mismatch = v.size_mismatch,
                    !.hash_mismatch = v.hash_mismatch,
                    !.phase = IF CopyCount(v.verified) = 0 THEN "done" ELSE "remove",
                    !.exit = IF CopyCount(v.verified) = 0 THEN 0 ELSE @]
    /\ UNCHANGED <<env, disk, stats, hist, nm, rn, ob>>

\* the removal of the next copy when a dry run is not told apart
remove_step_no_dry(raises) ==
    /\ dd.phase = "remove"
    /\ dd.next <= Len(dd.todo)
    /\ LET copy_path == dd.todo[dd.next]
           dest == TrashDest(dd.fs, TrashFolder, copy_path.name, 0)
           without == {e \in dd.fs : e.path # copy_path}
       IN  IF ~Exists(dd.fs, copy_path) \/ raises
             THEN dd' = [dd EXCEPT !.next = @ + 1]
           ELSE dd' = [dd EXCEPT
                         !.next = @ + 1,
                         !.mkdir = @ \/ dd.use_trash,
                         !.fs = IF dd.use_trash
                                  THEN without \cup
                                       {[path |-> dest,
                                         data |-> DataAt(dd.fs, copy_path)]}
                                  ELSE without,
                         !.files_removed = @ + 1]
    /\ UNCHANGED <<env, disk, stats, hist, nm, rn, ob>>

\* remove_duplicates, lines 202-230, for the next copy: a dry run prints; a
\* real run unlinks the copy or moves it to a free name of the trash
\* (shutil.move puts the copy's content at dest, whatever dest held), and
\* an exception of either is printed
remove_step(raises) ==
    /\ dd.phase = "remove"
    /\ dd.next <= Len(dd.todo)
    /\ LET copy_path == dd.todo[dd.next]
           use_trash == dd.use_trash
           dest == TrashDest(dd.fs, TrashFolder, copy_path.name, 0)
           without == {e \in dd.fs : e.path # copy_path}
           moved == {e \in without : e.path # dest}
                    \cup {[path |-> dest, data |-> DataAt(dd.fs, copy_path)]}
       IN  IF ~Exists(dd.fs, copy_path) \/ dd.dry_run
             THEN dd' = [dd EXCEPT !.next = @ + 1]
           ELSE IF raises
             THEN dd' = [dd EXCEPT !.next = @ + 1,
                                   !.mkdir = @ \/ use_trash,
                                   !.failed = @ \cup {copy_path}]
           ELSE dd' = [dd EXCEPT
                         !.next = @ + 1,
                         !.mkdir = @ \/ use_trash,
                         !.fs = IF use_trash THEN moved ELSE without,
                         !.files_removed = @ + 1]
    /\ UNCHANGED <<env, disk, stats, hist, nm, rn, ob>>

\* main, lines 333-344: the summary; the run ends
main_summary ==
    /\ dd.phase = "remove"
    /\ dd.next > Len(dd.todo)
    /\ dd' = [dd EXCEPT !.phase = "done", !.exit = 0]
    /\ UNCHANGED <<env, disk, stats, hist, nm, rn, ob>>

NextDedup ==
    \/ main_find
    \/ main_verify
    \/ \E raises \in BOOLEAN : remove_step(raises)
    \/ main_summary

SpecDedup == InitDedup /\ [][NextDedup]_vars

----------------------------------------------------------------------------
(* The orientation batch: process_images_batch of orient_pro.py over a     *)
(* list of files, sequentially or with a pool of workers, and the exit     *)
(* status main makes of its statistics.  A file is its suffix, its size,   *)
(* whether it can be opened, whether the transform changes it, and the     *)
(* message of the exception that processing it raises, if any.             *)

MaxBatch == 3

HEIC_SUFFIXES == {".heic", ".heif"}

\* is_icloud_placeholder(filepath)
is_icloud_placeholder(f) ==
    IF f.stat_raises THEN FALSE
    ELSE IF f.ext \in HEIC_SUFFIXES THEN f.size < 50000
    ELSE f.size < 10000

PlaceholderMessage ==
    <<"i", "C", "l", "o", "u", "d", " ", "p", "l", "a", "c", "e", "h",
      "o", "l", "d", "e", "r", " ", "(", "n", "o", "t", " ", "d", "o",
      "w", "n", "l", "o", "a", "d", "e", "d", ")">>

CannotOpenMessage ==
    <<"C", "a", "n", "n", "o", "t", " ", "o", "p", "e", "n", " ", "i",
      "m", "a", "g", "e", " ", "(", "i", "n", "s", "t", "a", "l", "l",
      " ", "p", "i", "l", "l", "o", "w", "-", "h", "e", "i", "f", " ",
      "f", "o", "r", " ", "H", "E", "I", "C", " ", "s", "u", "p", "p",
      "o", "r", "t", ")">>

HeicMessage ==
    <<"H", "E", "I", "C", " ", "f", "i", "l", "e", " ", "-", " ", "i",
      "n", "s", "t", "a", "l", "l", " ", "p", "i", "l", "l", "o", "w",
      "-", "h", "e", "i", "f", ":", " ", "p", "i", "p", " ", "i", "n",
      "s", "t", "a", "l", "l", " ", "p", "i", "l", "l", "o", "w", "-",
      "h", "e", "i", "f">>

TruncatedMessage ==
    <<"i", "m", "a", "g", "e", " ", "f", "i", "l", "e", " ", "i", "s",
      " ", "t", "r", "u", "n", "c", "a", "t", "e", "d">>

UnidentifiedMessage ==
    <<"c", "a", "n", "n", "o", "t", " ", "i", "d", "e", "n", "t", "i",
      "f", "y", " ", "i", "m", "a", "g", "e", " ", "f", "i", "l", "e">>

\* process_single_image(filepath, ...): (success, error), and whether the
\* file was handed to open_image_safe
process_single_image_result(f) ==
    IF is_icloud_placeholder(f)
      THEN [success |-> FALSE, error |-> Some(PlaceholderMessage), opened |-> FALSE]
    ELSE IF ~f.opens
      THEN [success |-> FALSE, error |-> Some(CannotOpenMessage), opened |-> TRUE]
    ELSE IF f.raises.has
      THEN IF Contains(Lower(f.raises.v), UnidentifiedMessage)
              /\ f.ext \in HEIC_SUFFIXES
             THEN [success |-> FALSE, error |-> Some(HeicMessage), opened |-> TRUE]
             ELSE [success |-> FALSE, error |-> Some(f.raises.v), opened |-> TRUE]
    ELSE IF ~f.changed
      THEN [success |-> FALSE, error |-> None, opened |-> TRUE]
    ELSE [success |-> TRUE, error |-> None, opened |-> TRUE]

\* "if error:" for an Optional[str]: neither None nor the empty text
Truthy(error) == error.has /\ error.v # <<>>

\* ProcessingStats.add_error
add_error(st) == [st EXCEPT !.errors = @ + 1]

\* process_images_batch, lines 516-524: the accounting of the sequential loop
CountSequential(st, r) ==
    IF Truthy(r.error)
      THEN IF ~Contains(r.error.v, <<"H", "E", "I", "C", " ", "f", "i", "l", "e">>)
              /\ ~Contains(r.error.v, <<"i", "C", "l", "o", "u", "d", " ", "p", "l",
                                        "a", "c", "e", "h", "o", "l", "d", "e", "r">>)
             THEN add_error(st)
             ELSE [st EXCEPT !.skipped = @ + 1]
    ELSE IF r.success THEN [st EXCEPT !.processed = @ + 1]
    ELSE [st EXCEPT !.skipped = @ + 1]

\* process_images_batch, lines 496-502: the accounting of a completed future
CountParallel(st, r) ==
    IF Truthy(r.error) THEN add_error(st)
    ELSE IF r.success THEN [st EXCEPT !.processed = @ + 1]
    ELSE [st EXCEPT !.skipped = @ + 1]

OrientFile(ext, size, opens, changed, raises) ==
    [ext |-> ext, size |-> size, stat_raises |-> FALSE, opens |-> opens,
     changed |-> changed, raises |-> raises]

\* the files a batch is made of: images the transform changes or leaves,
\* files below and at the size thresholds, a file that cannot be opened,
\* and files whose processing raises (with a message, and with none, as
\* MemoryError has)
OrientPool ==
    << OrientFile(".jpg", 2000000, TRUE, TRUE, None),
       OrientFile(".jpg", 2000000, TRUE, FALSE, None),
       OrientFile(".jpg", 9999, TRUE, TRUE, None),
       OrientFile(".heic", 49999, TRUE, TRUE, None),
       OrientFile(".jpg", 10000, TRUE, TRUE, None),
       OrientFile(".jpg", 2000000, FALSE, FALSE, None),
       OrientFile(".jpg", 2000000, TRUE, TRUE, Some(TruncatedMessage)),
       OrientFile(".heic", 50000, TRUE, TRUE, None),
       OrientFile(".jpg", 2000000, TRUE, TRUE, Some(<<>>)) >>

\* the members of the pool picked by S, in the order of the pool
PickedOrient(S) ==
    [k \in 1..Cardinality(S) |->
        OrientPool[CHOOSE i \in S : Cardinality({j \in S : j < i}) = k - 1]]

NoResult == [success |-> FALSE, error |-> None, opened |-> FALSE]

\* main, lines 683-715, and process_images_batch, line 466: the files, the
\* worker count (1 in a dry run) and ProcessingStats(total=len(files))
InitBatch ==
    /\ env = EnvIdle
    /\ disk = [l \in Loc |-> NoFile]
    /\ hist = <<>>
    /\ nm = NmIdle
    /\ rn = RnIdle
    /\ dd = DdIdle
    /\ \E S \in SUBSET (1..Len(OrientPool)), dry_run \in BOOLEAN, workers \in {1, 2, 4} :
          /\ 1 <= Cardinality(S) /\ Cardinality(S) <= MaxBatch
          /\ ob = [phase |-> "batch", files |-> PickedOrient(S),
                   dry_run |-> dry_run, workers |-> workers,
                   max_workers |-> IF dry_run THEN 1 ELSE workers,
                   st |-> [i \in 1..Cardinality(S) |-> "todo"],
                   result |-> [i \in 1..Cardinality(S) |-> NoResult],
                   exit |-> -1]
          /\ stats = [total |-> Cardinality(S), processed |-> 0, skipped |-> 0,
                      errors |-> 0]

BatchFiles == IF ob.phase = "batch" THEN 1..Len(ob.files) ELSE {}

\* line 481: the batch runs in the pool
Parallel == ob.max_workers > 1 /\ ~ob.dry_run

\* lines 510-524: the sequential loop takes up file i, processes it and
\* counts its outcome
sequential_step(i) ==
    /\ ob.phase = "batch" /\ ~Parallel
    /\ ob.st[i] = "todo"
    /\ \A j \in BatchFiles : j < i => ob.st[j] = "counted"
    /\ LET r == process_single_image_result(ob.files[i])
       IN  /\ ob' = [ob EXCEPT !.st[i] = "counted", !.result[i] = r]
           /\ stats' = CountSequential(stats, r)
    /\ UNCHANGED <<env, disk, hist, nm, rn, dd>>

\* lines 483-491: a free worker of the pool takes the next submitted file
worker_start(i) ==
    /\ ob.phase = "batch" /\ Parallel
    /\ ob.st[i] = "todo"
    /\ \A j \in BatchFiles : j < i => ob.st[j] # "todo"
    /\ Cardinality({j \in BatchFiles : ob.st[j] = "running"}) < ob.max_workers
    /\ ob' = [ob EXCEPT !.st[i] = "running"]
    /\ UNCHANGED <<env, disk, stats, hist, nm, rn, dd>>

\* the worker returns from process_single_image: the future is completed
worker_finish(i) ==
    /\ ob.phase = "batch" /\ Parallel
    /\ ob.st[i] = "running"
    /\ ob' = [ob EXCEPT !.st[i] = "finished",
                        !.result[i] = process_single_image_result(ob.files[i])]
    /\ UNCHANGED <<env, disk, stats, hist, nm, rn, dd>>

\* lines 493-504: the main thread takes a completed future and counts it
as_completed(i) ==
    /\ ob.phase = "batch" /\ Parallel
    /\ ob.st[i] = "finished"
    /\ ob' = [ob EXCEPT !.st[i] = "counted"]
    /\ stats' = CountParallel(stats, ob.result[i])
    /\ UNCHANGED <<env, disk, hist, nm, rn, dd>>

\* main, lines 719-732: the statistics are printed and the process exits
batch_exit ==
    /\ ob.phase = "batch"
    /\ \A i \in BatchFiles : ob.st[i] = "counted"
    /\ ob' = [ob EXCEPT !.phase = "done",
                        !.exit = IF stats.errors = 0 THEN 0 ELSE 1]
    /\ UNCHANGED <<env, disk, stats, hist, nm, rn, dd>>

NextBatch ==
    \/ \E i \in BatchFiles : sequential_step(i)
    \/ \E i \in BatchFiles : worker_start(i)
    \/ \E i \in BatchFiles : worker_finish(i)
    \/ \E i \in BatchFiles : as_completed(i)
    \/ batch_exit

SpecBatch == InitBatch /\ [][NextBatch]_vars

----------------------------------------------------------------------------
(* The vocabulary of the claims about orientation: a horizontal mirror, a  *)
(* clockwise rotation, and the (mirror, rotation) tables.                  *)

MirrorH(p) == <<p[2], p[1], p[4], p[3]>>

\* rotation by deg degrees clockwise: at 90 the top-left corner goes to
\* the top-right, so the new top-left is the old bottom-left
RotCW(p, deg) ==
    CASE deg = 0   -> p
      [] deg = 90  -> <<p[4], p[1], p[2], p[3]>>
      [] deg = 180 -> <<p[3], p[4], p[1], p[2]>>
      [] deg = 270 -> <<p[2], p[3], p[4], p[1]>>

\* mirror first, then rotate clockwise
MirrorThenRotate(p, d) == RotCW(IF d.mirror THEN MirrorH(p) ELSE p, d.rot)

MR(m, r) == [mirror |-> m, rot |-> r]

\* the table of spec section 4.1, rotation clockwise as its header says
SpecTable ==
    <<MR(FALSE, 0), MR(TRUE, 0), MR(FALSE, 180), MR(TRUE, 180),
      MR(TRUE, 270), MR(FALSE, 270), MR(TRUE, 90), MR(FALSE, 90)>>

\* the table of the EXIF standard: tags 6 and 8 exchanged against SpecTable
ExifTable ==
    <<MR(FALSE, 0), MR(TRUE, 0), MR(FALSE, 180), MR(TRUE, 180),
      MR(TRUE, 270), MR(FALSE, 90), MR(TRUE, 90), MR(FALSE, 270)>>

\* what the manual fallback of apply_exif_orientation does: the EXIF table
\* with the entries of tags 5 and 7 exchanged
ManualTable ==
    <<MR(FALSE, 0), MR(TRUE, 0), MR(FALSE, 180), MR(TRUE, 180),
      MR(TRUE, 90), MR(FALSE, 90), MR(TRUE, 270), MR(FALSE, 270)>>

Entries == {hist[i] : i \in 1..Len(hist)}

\* the EXIF-normalize runs that got as far as a decision (orient_basic.py
\* stops at the exception when ImageOps.exif_transpose raises)
ExifRuns == {e \in Entries : e.mode = "exif" /\ (e.tool = "pro" \/ e.changed)}

Class(img) == IF img.w >= img.h THEN "L" ELSE "P"

WantClass(e) == IF e.want THEN "L" ELSE "P"

C2_NormalizeIdempotent ==
    /\ \A e \in ExifRuns :
          get_orientation_tag(e.before) = 1 =>
              /\ e.result.px = e.before.px
              /\ (e.tool = "pro" => ~e.changed /\ e.wrote = "none")
    /\ \A i \in 1..(Len(hist) - 1) :
          LET a == hist[i]
              b == hist[i + 1]
          IN  a.mode = "exif" /\ b.mode = "exif" /\ a.wrote # "none" /\ b.root = a.wrote =>
                  /\ b.before.px = a.result.px
                  /\ b.result.px = b.before.px
                  /\ b.result.w = b.before.w /\ b.result.h = b.before.h

\* C2 witness: a file with tag 6 was normalized and saved, and normalize ran
\* again over the saved file
C2_Witness ==
    /\ Len(hist) = 2
    /\ hist[1].mode = "exif" /\ hist[2].mode = "exif"
    /\ hist[1].before.tag = 6 /\ hist[1].wrote # "none"
    /\ hist[2].root = hist[1].wrote /\ ~hist[2].dry
    /\ hist[2].before.px = RotCW(<<1, 2, 3, 4>>, 90)

TargetRuns == {e \in Entries : e.mode = "target"}

\* the image already has the class the run asks for
Matches(e) == (e.before.w >= e.before.h) = e.want

Swapped(e) == e.result.w = e.before.h /\ e.result.h = e.before.w

C5_ForceReachesClass ==
    \A e \in TargetRuns :
        /\ Class(e.result) = WantClass(e)
        /\ (~Matches(e) => Class(e.result) # Class(e.before))

\* C5 (amended): that holds for (100,200) and (200,100); the square
\* (150,150) is landscape whatever is done to it: ForceLandscape leaves it
\* alone, ForcePortrait rotates it each time and it stays landscape.
C5_ForceReachesClassUnlessSquare ==
    \A e \in TargetRuns :
        IF e.before.w # e.before.h
          THEN /\ Class(e.result) = WantClass(e)
               /\ (~Matches(e) => Class(e.result) # Class(e.before))
               /\ (Matches(e) => e.result = e.before)
          ELSE /\ Class(e.result) = "L"
               /\ e.result.w = e.before.w /\ e.result.h = e.before.h
               /\ (e.want <=> e.result.px = e.before.px)

\* C5 witness: (100,200) forced to landscape, portrait, landscape
C5_Witness ==
    /\ Len(hist) = 3
    /\ hist[1].before.w = 100 /\ hist[1].before.h = 200
    /\ hist[1].want /\ ~hist[2].want /\ hist[3].want
    /\ Class(hist[1].result) = "L" /\ Class(hist[2].result) = "P"
    /\ Class(hist[3].result) = "L"
    /\ disk["src"].w = 200 /\ disk["src"].h = 100

\* the decision for the run is "no change"
NoChangeNeeded(e) ==
    \/ e.mode = "exif" /\ get_orientation_tag(e.before) = 1
    \/ e.mode = "target" /\ Matches(e)

\* C6: when the decision for a file is "no change", a run that is not a dry
\* run writes nothing for it, in place or to the output tree, and does not
\* count it as changed.
C6_NoChangeWritesNothing ==
    \A e \in Entries :
        ~e.dry /\ NoChangeNeeded(e) => e.wrote = "none" /\ ~e.changed

----------------------------------------------------------------------------
(* The vocabulary of the claims about file names *)

NameRunIxs == IF nm.phase = "name" THEN 1..Len(nm.runs) ELSE {}

\* the file carries the metadata of the example: captured 2024-03-05
\* 14:22:01, 123 ms, at (37.7749, -122.4194), named IMG_5
ExampleFile(f) ==
    /\ f.stem = <<"I", "M", "G", "_", "5">>
    /\ f.exif.has
    /\ f.exif.v["DateTimeOriginal"] = Some(DateVal("plain", Captured))
    /\ f.exif.v["SubSecTimeOriginal"] = Some(<<"1", "2", "3">>)
    /\ f.exif.v["GPSLatitude"] = Some(Coord(377749))
    /\ f.exif.v["GPSLongitude"] = Some(Coord(-1224194))

\* ext is the text sx with every capital letter replaced by its small one
LowercaseOf(ext, sx) ==
    /\ Len(ext) = Len(sx)
    /\ \A i \in 1..Len(ext) :
          /\ \A k \in 1..26 : ext[i] # UpperCase[k]
          /\ \/ ext[i] = sx[i]
             \/ \E k \in 1..26 : sx[i] = UpperCase[k] /\ ext[i] = LowerCase[k]

C8_Deterministic ==
    \A i, j \in NameRunIxs : nm.runs[i].base = nm.runs[j].base

----------------------------------------------------------------------------
(* The vocabulary of the claims about the rename batch *)

\* the largest counter a batch can reach
MaxCounter == MaxFiles + MaxTaken + 1

\* the k-th candidate path of file i: its plain destination for k = 0
CandidateOf(i, k) ==
    Candidate(TargetDir(rn.dest, rn.files[i]),
              NewBase(rn.tool, rn.files[i], Captured), NewExt(rn.files[i]), k)

\* files i and j derive the same name into the same directory
SameDestination(i, j) == CandidateOf(i, 0) = CandidateOf(j, 0)

\* path is the first free candidate of file i on a disk holding existing
FirstFree(path, i, existing) ==
    \E k \in 0..MaxCounter :
        /\ path = CandidateOf(i, k)
        /\ path \notin existing
        /\ \A c \in 0..(k - 1) : CandidateOf(i, c) \in existing

\* the files written before file i under the same derived name
WrittenBefore(i) ==
    {j \in Files : j < i /\ rn.st[j] = "ok" /\ SameDestination(i, j)}

\* no candidate of file i was on disk when the batch began
InitiallyFree(i) ==
    \A k \in 0..MaxCounter : CandidateOf(i, k) \notin Paths(rn.fs0)

\* C9: the path the unique-path step returns does not exist when it is
\* returned and is the plain name if that is free, else the name with the
\* smallest counter >= 1 that is free; and the files of a non-dry-run batch
\* that derive the same name into a directory free of it are written as
\* name, name-1, name-2, ... in processing order.
C9_CollisionResolution ==
    /\ \A i \in Files :
          rn.st[i] \in {"planned", "dry"} =>
              FirstFree(rn.new_path[i], i, Paths(rn.fs))
    /\ \A i \in Files :
          (rn.st[i] = "ok" /\ InitiallyFree(i)) =>
              /\ rn.new_path[i] = CandidateOf(i, Cardinality(WrittenBefore(i)))
              /\ [path |-> rn.new_path[i], id |-> i] \in rn.fs

C9_Witness ==
    /\ rn.phase = "batch" /\ ~rn.dry_run
    /\ Len(rn.files) = 3
    /\ \A i \in Files : rn.st[i] = "ok" /\ InitiallyFree(i)
    /\ rn.new_path[1] = CandidateOf(1, 0)
    /\ rn.new_path[2] = CandidateOf(1, 1)
    /\ rn.new_path[3] = CandidateOf(1, 2)

\* a counter that is itself taken is passed over
C9_WitnessTaken ==
    /\ rn.phase = "batch"
    /\ \E i \in Files :
          /\ rn.st[i] = "planned"
          /\ rn.new_path[i] = CandidateOf(i, 2)
          /\ CandidateOf(i, 1) \in Paths(rn.fs0)

\* C10: in a non-dry-run batch, whatever the worker count, one file at a
\* time is between finding its free name and claiming it; no two source
\* files hold the same destination path, no move or copy lands on a path
\* that exists, and in move mode the disk holds as many files as when the
\* batch began.
C10_ClaimSerialized ==
    (rn.phase = "batch" /\ ~rn.dry_run) =>
        /\ Cardinality(InFlight) <= 1
        /\ \A i, j \in Files :
              (i # j /\ rn.st[i] \in {"planned", "ok"}
                     /\ rn.st[j] \in {"planned", "ok"}) =>
                  rn.new_path[i] # rn.new_path[j]
        /\ \A i \in InFlight : rn.new_path[i] \notin Paths(rn.fs)
        /\ rn.overwritten = {}
        /\ ~rn.copy_mode => Cardinality(rn.fs) = Cardinality(rn.fs0)

C10_Witness ==
    /\ rn.phase = "batch" /\ ~rn.dry_run /\ ~rn.copy_mode
    /\ rn.max_workers > 1
    /\ \E i, j \in Files :
          /\ i < j /\ SameDestination(i, j)
          /\ rn.st[i] = "ok" /\ rn.st[j] = "ok"
          /\ rn.new_path[i] # rn.new_path[j]

----------------------------------------------------------------------------
(* The vocabulary of the claims about timestamps *)

ProRuns == IF nm.phase = "name" /\ nm.tool = "pro" THEN 1..Len(nm.runs) ELSE {}

SimpleRuns == IF nm.phase = "name" /\ nm.tool = "simple" THEN 1..Len(nm.runs) ELSE {}

\* C11: whatever exiftool gave for the file (no map, or a map whose date
\* tags are missing, empty, unparseable or carry a time zone), metadata
\* creation yields a record with a timestamp, and the file is not recorded
\* as an error; the simple tool always has a timestamp text.
C11_TimestampNeverAbsent ==
    /\ \A i \in ProRuns :
          /\ ~nm.runs[i].metadata.raises
          /\ nm.runs[i].metadata.date_time.has
          /\ nm.runs[i].error = ""
    /\ \A i \in SimpleRuns : nm.runs[i].ts_str # <<>>

\* the moment of the first of DateTimeOriginal, CreateDate, ModifyDate whose
\* value yields a timestamp, or None
RECURSIVE FirstYielding(_, _)
FirstYielding(exif, tags) ==
    IF tags = <<>> THEN None
    ELSE IF exif[tags[1]].has /\ exif[tags[1]].v.form \in {"plain", "frac", "epoch"}
      THEN Some(exif[tags[1]].v.dt)
    ELSE FirstYielding(exif, Tail(tags))

ThreeTags == <<"DateTimeOriginal", "CreateDate", "ModifyDate">>

MapOf(f) == IF f.exif.has THEN f.exif.v ELSE EmptyExif

\* the filesystem creation time of a file, else its last-status-change time
FsTime(f) == IF f.stat.birth.has THEN f.stat.birth.v ELSE f.stat.ctime

\* C12: the timestamp is that of the first of DateTimeOriginal, CreateDate,
\* ModifyDate, in this order, that yields one; if the three are absent it is
\* the filesystem creation time, else the last-status-change time, with a
\* sub-second component of 0.
C12_FallbackOrder ==
    /\ \A i \in ProRuns :
          LET md == nm.runs[i].metadata
              y == FirstYielding(MapOf(nm.file), ThreeTags)
          IN  (~md.raises /\ ~nm.file.stat.raises) =>
                /\ y.has => md.date_time = y
                /\ (\A k \in 1..3 : ~MapOf(nm.file)[ThreeTags[k]].has) =>
                      /\ md.date_time = Some(FsTime(nm.file))
                      /\ md.milliseconds = 0
    /\ \A i \in SimpleRuns :
          LET y == FirstYielding(MapOf(nm.file), ThreeTags)
          IN  ~nm.file.stat.raises =>
                /\ y.has => Take(nm.runs[i].ts_str, 15)
                              = DateStr(y.v) \o <<"_">> \o TimeStr(y.v)
                /\ (\A k \in 1..3 : ~MapOf(nm.file)[ThreeTags[k]].has) =>
                      nm.runs[i].ts_str = TimestampStr(FsTime(nm.file), 0)

----------------------------------------------------------------------------
(* The vocabulary of the claims about GPS *)

\* the derived base name of a run has a GPS part
GpsInName(run) == Contains(run.base, <<"_", "l", "a", "t">>)

\* both coordinates exist, are numbers in range and are not both within
\* 0.01 degree of (0, 0)
ValidGps(f) ==
    LET lat == MapOf(f)["GPSLatitude"]
        lon == MapOf(f)["GPSLongitude"]
    IN  /\ lat.has /\ lon.has
        /\ lat.v.num /\ lon.v.num
        /\ -900000 <= lat.v.x /\ lat.v.x <= 900000
        /\ -1800000 <= lon.v.x /\ lon.v.x <= 1800000
        /\ ~(Abs(lat.v.x) < 100 /\ Abs(lon.v.x) < 100)

\* the runs that named the file
NamingRuns ==
    {i \in NameRunIxs : nm.tool = "pro" => nm.runs[i].error = ""}

\* C13: the derived name has a GPS part exactly when both coordinates exist,
\* are numbers with -90 <= lat <= 90 and -180 <= lon <= 180, and are not
\* both within 0.01 degree of (0,0); so (0.001, -0.002) is left out and
\* (45.0, 90.0) is kept.
C13_GpsOnlyWhenValid ==
    \A i \in NamingRuns : GpsInName(nm.runs[i]) <=> ValidGps(nm.file)

\* the same for rename_images_by_exif_pro.py alone
C13_GpsOnlyWhenValidPro ==
    \A i \in NamingRuns \cap ProRuns : GpsInName(nm.runs[i]) <=> ValidGps(nm.file)

C13_WitnessPro ==
    /\ ProRuns # {}
    /\ MapOf(nm.file)["GPSLatitude"] = Some(Coord(10))
    /\ MapOf(nm.file)["GPSLongitude"] = Some(Coord(-20))
    /\ Str(nm.runs[1].base) = "20240305_142201_123_IMG_5"

----------------------------------------------------------------------------
(* The vocabulary of the claims about duplicates *)

Grouped == dd.phase \notin {"idle", "find"}

Range(q) == {q[i] : i \in 1..Len(q)}

\* the files listed, as a set
Listed == IF dd.phase = "idle" THEN {}
          ELSE Range(Listing(dd.scan, Folder, dd.recursive))

IsCopyCandidate(f) == DUPLICATE_PATTERN(f.name).matched

CopyNumber(f) == DUPLICATE_PATTERN(f.name).copy_num

\* the copy-candidates of the name <base><ext>
CandidatesOf(original_name) ==
    {f \in Listed : IsCopyCandidate(f) /\ OriginalName(f.name) = original_name}

\* the names <base><ext> that have copy-candidates
CandidateNames == {OriginalName(f.name) : f \in {g \in Listed : IsCopyCandidate(g)}}

NonCopiesNamed(original_name) ==
    {f \in Listed : ~IsCopyCandidate(f) /\ f.name = original_name}

FoundGroups == {dd.found[i] : i \in 1..Len(dd.found)}

\* q lists the paths of S, each once, by ascending copy number
AscendingByN(q, S) ==
    /\ Len(q) = Cardinality(S)
    /\ Range(q) = S
    /\ \A i, j \in 1..Len(q) : i < j => CopyNumber(q[i]) <= CopyNumber(q[j])

\* C14: for each name <base><ext> with copy-candidates: if a non-copy file
\* has exactly that name, one is the canonical of a group whose copies are
\* all the candidates by ascending N; if none has, the candidate with the
\* smallest N is the canonical of a group whose copies are the remaining
\* candidates by ascending N (no group when none remains).
C14_Grouping ==
    Grouped =>
      \A name \in CandidateNames :
        LET C == CandidatesOf(name)
            O == NonCopiesNamed(name)
        IN  IF O # {}
              THEN \E g \in FoundGroups :
                      g.canonical \in O /\ AscendingByN(g.copies, C)
            ELSE IF Cardinality(C) > 1
              THEN \E g \in FoundGroups :
                      /\ g.canonical \in C
                      /\ \A f \in C : CopyNumber(g.canonical) <= CopyNumber(f)
                      /\ AscendingByN(g.copies, C \ {g.canonical})
            ELSE \A g \in FoundGroups :
                      g.canonical \notin C /\ Range(g.copies) \cap C = {}

\* photo.jpg, photo 2.jpg, photo 3.jpg give photo.jpg -> [photo 2.jpg, photo 3.jpg]
C14_Witness ==
    /\ Grouped
    /\ Listed = {Photo, Photo2, Photo3}
    /\ dd.scan[1] = Photo
    /\ dd.found = <<[canonical |-> Photo, copies |-> <<Photo2, Photo3>>]>>

\* x 2.jpg, x 5.jpg give x 2.jpg -> [x 5.jpg]
C14_WitnessPseudo ==
    /\ Grouped
    /\ Listed = {X2, X5}
    /\ dd.found = <<[canonical |-> X2, copies |-> <<X5>>]>>

\* the paths of a group
Members(g) == {g.canonical} \cup Range(g.copies)

A2 == File(Folder, <<"a", " ", "2", ".", "j", "p", "g">>)

A23 == File(Folder, <<"a", " ", "2", " ", "3", ".", "j", "p", "g">>)

A24 == File(Folder, <<"a", " ", "2", " ", "4", ".", "j", "p", "g">>)

SubPhoto == File(SubFolder, <<"p", "h", "o", "t", "o", ".", "j", "p", "g">>)

\* C15: in the mapping the grouping returns, no path is in two groups, no
\* path is twice in a copies list, and no path is the canonical of a group
\* and a copy of that or of another group.
C15_PathInOneGroup ==
    Grouped =>
      /\ \A i, j \in 1..Len(dd.found) :
            i # j => Members(dd.found[i]) \cap Members(dd.found[j]) = {}
      /\ \A i \in 1..Len(dd.found) :
            \A a, b \in 1..Len(dd.found[i].copies) :
                a # b => dd.found[i].copies[a] # dd.found[i].copies[b]
      /\ \A i, j \in 1..Len(dd.found) :
            dd.found[i].canonical \notin Range(dd.found[j].copies)

\* the nested names a 2.jpg, a 2 3.jpg, a 2 4.jpg: a 2 3.jpg -> [a 2 4.jpg]
C15_Witness ==
    /\ Grouped
    /\ Listed = {A2, A23, A24}
    /\ dd.found = <<[canonical |-> A23, copies |-> <<A24>>]>>

\* a recursive listing with photo 2.jpg in two directories
C15_WitnessRecursive ==
    /\ Grouped
    /\ dd.recursive
    /\ Listed = {SubPhoto, Photo2, SubPhoto2}
    /\ dd.found = <<[canonical |-> SubPhoto, copies |-> <<Photo2, SubPhoto2>>]>>

\* the removal has begun
Removing == dd.phase \in {"remove", "done"}

PathsIn(fs) == {e.path : e \in fs}

\* the paths that held a file before the run and hold none now
Gone == IF dd.phase = "idle" THEN {} ELSE PathsIn(dd.fs0) \ PathsIn(dd.fs)

\* C16: whatever the mode (delete or trash, verified or not), a path that
\* lost its file is listed as a copy, the canonical of every group still
\* holds the file it held, and so every group keeps at least one file.
C16_KeepsOriginal ==
    Removing =>
      /\ Gone \subseteq Range(AllCopies(dd.found))
      /\ Gone \subseteq Range(AllCopies(dd.groups))
      /\ \A g \in FoundGroups :
            /\ Exists(dd.fs, g.canonical)
            /\ DataAt(dd.fs, g.canonical) = DataAt(dd.fs0, g.canonical)
            /\ Members(g) \cap PathsIn(dd.fs) # {}

\* a verified run that deleted photo 2.jpg, photo 3.jpg and x 5.jpg
C16_Witness ==
    /\ dd.phase = "done"
    /\ dd.verify_hash /\ ~dd.dry_run /\ ~dd.use_trash
    /\ dd.files_removed = 3
    /\ Gone = {Photo2, Photo3, X5}
    /\ Exists(dd.fs, Photo) /\ Exists(dd.fs, X2)

\* a run that moved every copy to the trash
C16_WitnessTrash ==
    /\ dd.phase = "done"
    /\ dd.use_trash /\ ~dd.dry_run
    /\ Gone = {Photo2, Photo3, X5}
    /\ \A f \in Gone : Exists(dd.fs, File(TrashFolder, f.name))

\* an unverified run over a pseudo-original
C16_WitnessPseudo ==
    /\ dd.phase = "done"
    /\ ~dd.verify_hash /\ ~dd.dry_run
    /\ dd.found = <<[canonical |-> X2, copies |-> <<X5>>]>>
    /\ Gone = {X5}

\* the verification has run
Verified == dd.phase \in {"remove", "done"} /\ dd.verify_hash

SizeAt(path) == DataAt(dd.fs0, path).size

VerifiedGroups == {dd.groups[i] : i \in 1..Len(dd.groups)}

\* the copies of the grouping whose size differs from their canonical's
SizeDiffers ==
    {c \in PoolPaths : \E g \in FoundGroups :
        c \in Range(g.copies) /\ SizeAt(c) # SizeAt(g.canonical)}

\* C17: in quick and in full mode, a copy whose size differs from its
\* canonical's is in no verified group and its digest was not computed.
C17_SizeRejectedUnhashed ==
    Verified =>
      \A c \in SizeDiffers :
        /\ \A g \in VerifiedGroups : c \notin Members(g)
        /\ c \notin dd.hashed

\* quick mode: photo 2.jpg has another size than photo.jpg and was not
\* hashed, photo 3.jpg has the same size and was
C17_Witness ==
    /\ Verified /\ ~dd.full_hash
    /\ SizeAt(Photo2) # SizeAt(Photo) /\ SizeAt(Photo3) = SizeAt(Photo)
    /\ Photo2 \in dd.size_mismatch /\ Photo2 \notin dd.hashed
    /\ Photo3 \in dd.hashed

\* the same in full mode
C17_WitnessFull ==
    /\ Verified /\ dd.full_hash
    /\ SizeAt(Photo2) # SizeAt(Photo) /\ SizeAt(Photo3) = SizeAt(Photo)
    /\ Photo2 \in dd.size_mismatch /\ Photo2 \notin dd.hashed
    /\ Photo3 \in dd.hashed

\* the digest of the file a path held when the run began, in the run's mode
DigestAt(path) == get_file_hash(DataAt(dd.fs0, path), ~dd.full_hash)

\* copy c of canonical o has o's size and o's digest
SameContent(o, c) == SizeAt(c) = SizeAt(o) /\ DigestAt(c) = DigestAt(o)

\* the groups of q with the copies that have their canonical's size and
\* digest, in q's order; a group left with no copy is left out
RECURSIVE ConfirmedOf(_)
ConfirmedOf(q) ==
    IF q = <<>> THEN <<>>
    ELSE LET o == q[1].canonical
             kept == SelectSeq(q[1].copies, LAMBDA c : SameContent(o, c))
         IN  (IF kept = <<>> THEN <<>> ELSE <<[canonical |-> o, copies |-> kept]>>)
             \o ConfirmedOf(Tail(q))

\* C18: the verification returns the groups of its input, in order, each
\* with exactly the copies that have the canonical's size and the
\* canonical's digest (both digests in the run's mode), in input order, and
\* without the groups left empty; a dropped copy of another size is reported
\* as size mismatch, a dropped copy of equal size as hash mismatch, a
\* retained copy as neither.
C18_ExactlyConfirmed ==
    Verified =>
      /\ dd.groups = ConfirmedOf(dd.found)
      /\ \A g \in FoundGroups : \A c \in Range(g.copies) :
            /\ c \in dd.size_mismatch <=> SizeAt(c) # SizeAt(g.canonical)
            /\ c \in dd.hash_mismatch <=>
                  SizeAt(c) = SizeAt(g.canonical) /\ ~SameContent(g.canonical, c)
      /\ dd.size_mismatch \cup dd.hash_mismatch \subseteq Range(AllCopies(dd.found))

\* photo 2.jpg differs in its head, photo 3.jpg is the same, x 5.jpg has
\* another size: photo.jpg -> [photo 3.jpg] is all that is returned
C18_Witness ==
    /\ Verified
    /\ dd.found = <<[canonical |-> Photo, copies |-> <<Photo2, Photo3>>],
                    [canonical |-> X2, copies |-> <<X5>>]>>
    /\ dd.hash_mismatch = {Photo2}
    /\ dd.size_mismatch = {X5}
    /\ dd.groups = <<[canonical |-> Photo, copies |-> <<Photo3>>]>>

\* every copy is the same as its canonical: the input is returned as it is
C18_WitnessAll ==
    /\ Verified
    /\ Len(dd.found) = 2
    /\ dd.groups = dd.found

----------------------------------------------------------------------------
(* The vocabulary of the claims about the accounting of a batch *)

\* the rename batch has returned its statistics
Returned == rn.phase = "done"

\* the files of the rename batch that failed
FailedFiles == IF rn.phase = "idle" THEN {}
               ELSE {i \in 1..Len(rn.files) : rn.st[i] = "err"}

\* C19 (rename): when the batch has returned, errors is the number of files
\* that failed, no count is negative and processed + skipped + errors is
\* total.
C19_Accounting ==
    Returned =>
      /\ stats.errors = Cardinality(FailedFiles)
      /\ stats.processed >= 0 /\ stats.skipped >= 0 /\ stats.errors >= 0
      /\ stats.processed + stats.skipped + stats.errors = stats.total

\* the orientation batch has ended
BatchDone == ob.phase = "done"

AllOrientFiles == IF ob.phase = "idle" THEN {} ELSE 1..Len(ob.files)

Placeholders == {i \in AllOrientFiles : is_icloud_placeholder(ob.files[i])}

\* the files the tool could not process: not opened, or an exception
BrokenFiles ==
    {i \in AllOrientFiles \ Placeholders :
        ~ob.files[i].opens \/ ob.files[i].raises.has}

\* C19 (orientation), the part that holds: every file of the batch was
\* counted, no count is negative and the three counts add up to total.
C19_CountedOnce ==
    BatchDone =>
      /\ \A i \in AllOrientFiles : ob.st[i] = "counted"
      /\ stats.processed >= 0 /\ stats.skipped >= 0 /\ stats.errors >= 0
      /\ stats.processed + stats.skipped + stats.errors = stats.total
      /\ stats.total = Len(ob.files)

\* C19 (orientation): errors is the number of files that failed.
C19_ErrorsAreFailures ==
    BatchDone => stats.errors = Cardinality(BrokenFiles)

\* C20, the part that holds: a placeholder is never handed to
\* open_image_safe.
C20_PlaceholderNeverDecoded ==
    \A i \in Placeholders :
        ob.st[i] \in {"finished", "counted"} => ~ob.result[i].opened

\* C20: for every worker count, when the batch has ended no placeholder
\* was decoded, the placeholders are among the skipped files and not among
\* the errors, and a batch of placeholders alone exits with status 0.
C20_PlaceholderSkipped ==
    BatchDone =>
      /\ \A i \in Placeholders : ~ob.result[i].opened
      /\ stats.skipped >= Cardinality(Placeholders)
      /\ stats.errors <= Cardinality(AllOrientFiles \ Placeholders)
      /\ (Placeholders = AllOrientFiles => ob.exit = 0)

\* C20, the two loops: the sequential and the parallel accounting put the
\* outcome of every file in the same count.
C20_SameClassification ==
    \A i \in AllOrientFiles :
        ob.st[i] = "counted" =>
          CountSequential(NoStats, ob.result[i]) = CountParallel(NoStats, ob.result[i])

\* C20 for the sequential loop alone
C20_PlaceholderSkippedSequential ==
    BatchDone /\ ~Parallel =>
      /\ stats.skipped >= Cardinality(Placeholders)
      /\ stats.errors <= Cardinality(AllOrientFiles \ Placeholders)
      /\ (Placeholders = AllOrientFiles => ob.exit = 0)

\* a sequential batch of the two placeholders: both skipped, exit status 0
C20_WitnessSequential ==
    /\ BatchDone /\ ~Parallel
    /\ Cardinality(Placeholders) = 2 /\ Len(ob.files) = 2
    /\ stats.skipped = 2 /\ stats.errors = 0 /\ ob.exit = 0

\* the same batch with four workers: two errors, exit status 1
C20_WitnessParallel ==
    /\ BatchDone /\ ob.max_workers = 4
    /\ Cardinality(Placeholders) = 2 /\ Len(ob.files) = 2
    /\ stats.skipped = 0 /\ stats.errors = 2 /\ ob.exit = 1

----------------------------------------------------------------------------
(* The vocabulary of the claims about the exit status and the dry run *)

\* the duplicate removal has ended
DedupDone == dd.phase = "done"

\* the copies whose removal raised
RemovalErrors == IF dd.phase = "idle" THEN {} ELSE dd.failed

\* C21 (duplicate removal): when the run has ended, the exit status is 0
\* exactly when no removal failed.
C21_ExitStatus ==
    DedupDone => (dd.exit = 0 <=> RemovalErrors = {})

\* C21 (orientation): the exit status is set only when every file is
\* counted, and it is 0 exactly when no error was recorded.
C21_ExitStatusOrient ==
    /\ ob.phase = "batch" => ob.exit = -1
    /\ BatchDone => /\ \A i \in AllOrientFiles : ob.st[i] = "counted"
                    /\ (ob.exit = 0 <=> stats.errors = 0)
                    /\ ob.exit \in {0, 1}

\* C21 (rename): the exit status is set only when every file is through,
\* and it is 0 exactly when no file failed.
C21_ExitStatusRename ==
    /\ rn.phase = "batch" => rn.exit = -1
    /\ Returned => /\ \A i \in 1..Len(rn.files) : rn.st[i] \in {"ok", "dry", "err"}
                   /\ (rn.exit = 0 <=> FailedFiles = {})
                   /\ rn.exit \in {0, 1}

C22_WitnessRename ==
    /\ rn.phase # "idle" /\ rn.dry_run
    /\ Len(rn.files) = 3
    /\ \A i \in 1..3 : rn.st[i] = "dry" /\ rn.new_path[i] # ""

\* a dry orientation run that changed the image in memory
C22_WitnessOrient ==
    \E k \in 1..Len(hist) : hist[k].dry /\ hist[k].changed /\ hist[k].tool = "pro"

----------------------------------------------------------------------------
(* The vocabulary of the claims about the trash *)

\* a run that moves copies to the trash
Trashing == dd.phase # "idle" /\ dd.use_trash /\ ~dd.dry_run

InTrash(fs) == {e \in fs : e.path.dir = TrashFolder}

\* C23: in a run that moves copies to the trash, each path holds one file,
\* no content the tree held at the start is lost (nothing is overwritten),
\* what the trash held stays in the trash, and the content of each path
\* that lost its file is in the trash under a name of its own.
C23_TrashNeverOverwrites ==
    Trashing =>
      /\ \A e1, e2 \in dd.fs : e1.path = e2.path => e1 = e2
      /\ \A e \in dd.fs0 : \E e2 \in dd.fs : e2.data = e.data
      /\ \A e \in InTrash(dd.fs0) : \E e2 \in InTrash(dd.fs) : e2.data = e.data
      /\ \A e \in dd.fs0 :
            e.path \in Gone => \E e2 \in InTrash(dd.fs) : e2.data = e.data
      /\ Cardinality(dd.fs) = Cardinality(dd.fs0)

\* photo 2.jpg of two directories moved into a trash that held
\* photo 2.jpg and photo 2_1.jpg: they are now photo 2_2.jpg and
\* photo 2_3.jpg
C23_Witness ==
    /\ Trashing /\ DedupDone /\ dd.recursive
    /\ InTrash(dd.fs0) = {[path |-> f, data |-> OwnData(f)] : f \in TrashPool}
    /\ {Photo2, SubPhoto2} \subseteq Gone
    /\ \E e \in dd.fs : e.path = File(TrashFolder, TrashName(Photo2.name, 2))
    /\ \E e \in dd.fs : e.path = File(TrashFolder, TrashName(Photo2.name, 3))

----------------------------------------------------------------------------
(* The vocabulary of the claims about the quick digest *)

\* the first and the last 64KB of a file: a file of at most 64KB is its own
\* first and last 64KB
FirstChunk(data) == data.head

LastChunk(data) == IF data.size > Chunk THEN data.tail ELSE data.head

\* copy c is in the verified group of canonical o
KeptWith(o, c) == \E g \in VerifiedGroups : g.canonical = o /\ c \in Range(g.copies)

\* C24: the quick digests of two files are equal exactly when their first
\* 64KB and their sizes are equal and, for a size above 64KB, their last
\* 64KB too; equal full digests imply equal quick digests; and a quick-mode
\* verification retains a copy of its canonical's size exactly when first
\* and last 64KB agree, whatever lies between (no full digest is taken).
C24_QuickDigest ==
    /\ \A d1, d2 \in Contents :
          /\ get_file_hash(d1, TRUE) = get_file_hash(d2, TRUE) <=>
                /\ FirstChunk(d1) = FirstChunk(d2)
                /\ d1.size = d2.size
                /\ d1.size > Chunk => d1.tail = d2.tail
          /\ get_file_hash(d1, FALSE) = get_file_hash(d2, FALSE) =>
                get_file_hash(d1, TRUE) = get_file_hash(d2, TRUE)
    /\ (Verified /\ ~dd.full_hash) =>
          \A g \in FoundGroups : \A c \in Range(g.copies) :
             SizeAt(c) = SizeAt(g.canonical) =>
               (KeptWith(g.canonical, c) <=>
                  /\ FirstChunk(DataAt(dd.fs0, c)) = FirstChunk(DataAt(dd.fs0, g.canonical))
                  /\ LastChunk(DataAt(dd.fs0, c)) = LastChunk(DataAt(dd.fs0, g.canonical)))
    /\ (Verified /\ dd.full_hash) =>
          \A g \in VerifiedGroups : \A c \in Range(g.copies) :
             get_file_hash(DataAt(dd.fs0, c), TRUE)
               = get_file_hash(DataAt(dd.fs0, g.canonical), TRUE)

\* quick mode: photo 2.jpg differs from photo.jpg between the first and the
\* last 64KB and is retained, photo 3.jpg differs in the last 64KB and is not
C24_Witness ==
    /\ Verified /\ ~dd.full_hash
    /\ DataAt(dd.fs0, Photo) = LargeData
    /\ DataAt(dd.fs0, Photo2) = Data(100000, 1, 2, 1)
    /\ DataAt(dd.fs0, Photo3) = Data(100000, 1, 1, 2)
    /\ KeptWith(Photo, Photo2) /\ ~KeptWith(Photo, Photo3)

\* full mode: the same photo 2.jpg is not retained
C24_WitnessFull ==
    /\ Verified /\ dd.full_hash
    /\ DataAt(dd.fs0, Photo) = LargeData
    /\ DataAt(dd.fs0, Photo2) = Data(100000, 1, 2, 1)
    /\ DataAt(dd.fs0, Photo3) = LargeData
    /\ ~KeptWith(Photo, Photo2) /\ KeptWith(Photo, Photo3)

----------------------------------------------------------------------------
(* The vocabulary of the claims about sanitized names *)

IsSuffix(a, b) == Len(a) <= Len(b) /\ SubSeq(b, Len(b) - Len(a) + 1, Len(b)) = a

\* no problematic character, no whitespace and no two "_" in a row
Collapsed(cs) ==
    /\ \A i \in 1..Len(cs) : cs[i] \notin Problematic \cup Whitespace
    /\ \A i \in 1..Len(cs) - 1 : ~(cs[i] = "_" /\ cs[i + 1] = "_")

\* the sanitized original base name of the session's file, by its tool
SanitizedOriginal ==
    IF nm.tool = "pro" THEN sanitize_filename(nm.file.stem, MAX_FILENAME_LENGTH)
    ELSE safe_filename(nm.file.stem)

\* the runs of the session that derived a name
Derived == {k \in 1..Len(nm.runs) : nm.tool = "pro" => nm.runs[k].error = ""}

\* C25: the sanitized original base name has no problematic character, has
\* every run of whitespace and underscores collapsed to one "_", is at most
\* MAX_FILENAME_LENGTH long, and is the suffix of the derived file name.
C25_Sanitized ==
    \A k \in Derived :
        /\ Collapsed(SanitizedOriginal)
        /\ Len(SanitizedOriginal) <= MAX_FILENAME_LENGTH
        /\ IsSuffix(SanitizedOriginal, nm.runs[k].base)

\* what holds of FilenameGenerator.sanitize_filename for every stem
C25_ProSanitized ==
    \A k \in Derived : nm.tool = "pro" =>
        /\ Collapsed(SanitizedOriginal)
        /\ Len(SanitizedOriginal) <= MAX_FILENAME_LENGTH
        /\ Collapsed(nm.runs[k].base)
        /\ Len(nm.runs[k].base) <= MAX_FILENAME_LENGTH

\* the simple tool keeps the sanitized stem as the suffix
C25_SimpleSuffix ==
    \A k \in Derived : nm.tool = "simple" =>
        IsSuffix(SanitizedOriginal, nm.runs[k].base)

\* the pro tool keeps it unless the derived name is cut at the cap
C25_ProSuffix ==
    \A k \in Derived : nm.tool = "pro" =>
        (IsSuffix(SanitizedOriginal, nm.runs[k].base)
           \/ Len(nm.runs[k].base) = MAX_FILENAME_LENGTH)

\* the simple tool leaves two "_" in a row
C25_SimpleCollapsed ==
    \A k \in Derived : nm.tool = "simple" => Collapsed(SanitizedOriginal)

\* the pro tool's derived name of a long stem ends with the stem
C25_ProSuffixLong ==
    \A k \in Derived : (nm.tool = "pro" /\ nm.file.stem = LongStem) =>
        IsSuffix(SanitizedOriginal, nm.runs[k].base)

----------------------------------------------------------------------------
(* The vocabulary of the claims about the copy pattern *)

\* name is base, one space, the digits of an N >= 1 and an extension (a "."
\* and at least one character that is no "."), base not empty; the text
\* base \o extension is returned in a set, empty when name has no such form
CopyFormOf(name) ==
    {SubSeq(name, 1, i - 1) \o SubSeq(name, j, Len(name)) :
        <<i, j>> \in {p \in (2..Len(name)) \X (1..Len(name)) :
            /\ name[p[1]] = " "
            /\ p[2] > p[1] + 1 /\ p[2] < Len(name)
            /\ name[p[2]] = "."
            /\ \A k \in (p[2] + 1)..Len(name) : name[k] # "."
            /\ \A k \in (p[1] + 1)..(p[2] - 1) : IsDigit(name[k])
            /\ IntOf(SubSeq(name, p[1] + 1, p[2] - 1)).v >= 1}}

\* the search has run
Searched == dd.phase \notin {"idle", "find"}

\* C26: after the search, a listed file was taken as a copy candidate of
\* <base><ext> exactly when its name is <base>, a space, an N >= 1 and
\* <ext>, and the copies of the groups found have this form.
C26_CopyForm ==
    Searched =>
      /\ \A f \in Listed :
            /\ IsCopyCandidate(f) <=> CopyFormOf(f.name) # {}
            /\ IsCopyCandidate(f) => CopyFormOf(f.name) = {OriginalName(f.name)}
      /\ \A g \in FoundGroups : \A c \in Range(g.copies) : CopyFormOf(c.name) # {}

\* the same for every listed name but those with N = 0 or a tab
C26_CopyFormButZeroAndTab ==
    \A f \in Listed :
        (~Contains(f.name, <<"\t">>) /\ ~Contains(f.name, <<" ", "0", ".">>)) =>
          /\ IsCopyCandidate(f) <=> CopyFormOf(f.name) # {}
          /\ IsCopyCandidate(f) => CopyFormOf(f.name) = {OriginalName(f.name)}

\* "photo 0.jpg" is no copy of photo.jpg after the search
C26_ZeroIsNoCopy ==
    \A g \in FoundGroups : \A c \in Range(g.copies) :
        DUPLICATE_PATTERN(c.name).copy_num >= 1

----------------------------------------------------------------------------
(* Where the orientation tools write: orient_pro.py (in place or into an   *)
(* output tree, sequential or in a pool), orient_all.py and                *)
(* orient_simple.py. A file on disk holds the source file its image came   *)
(* from and whether its orientation tag asks for a rotation.               *)

MaxWrite == 3

OutFolder == <<<<"o">>>>

JpgSuffix == <<".", "j", "p", "g">>

\* Path.with_suffix('.jpg')
with_suffix_jpg(path) == File(path.dir, Stem(path.name) \o JpgSuffix)

\* orient_pro.py process_single_image, lines 419-423: the output path
pro_output_path(filepath, inplace, output_dir, base_dir) ==
    IF inplace THEN filepath
    ELSE File(output_dir \o SubSeq(filepath.dir, Len(base_dir) + 1, Len(filepath.dir)),
              filepath.name)

\* orient_pro.py save_with_metadata, lines 341-346: the path saved to
pro_save_path(output_path, source_path) ==
    IF Lower(Suffix(source_path.name)) \in {<<".", "h", "e", "i", "c">>,
                                            <<".", "h", "e", "i", "f">>}
      THEN with_suffix_jpg(output_path) ELSE output_path

\* orient_all.py fix_image, lines 46-81: the path saved to
all_save_path(filepath, convert_to_jpeg, output_dir) ==
    LET base_output == IF output_dir.has THEN File(output_dir.v, filepath.name)
                       ELSE filepath
    IN  IF convert_to_jpeg
           \/ Lower(Suffix(filepath.name)) \in {<<".", "d", "n", "g">>,
                                                <<".", "h", "e", "i", "c">>,
                                                <<".", "h", "e", "i", "f">>}
          THEN with_suffix_jpg(base_output) ELSE base_output

\* orient_simple.py fix_image, lines 45-56: the path saved to
simple_save_path(filepath) ==
    IF Lower(Suffix(filepath.name)) \in {<<".", "h", "e", "i", "c">>,
                                         <<".", "h", "e", "i", "f">>,
                                         <<".", "d", "n", "g">>}
      THEN with_suffix_jpg(filepath) ELSE filepath

\* the image files a tree can hold
WritePool ==
    {File(Folder, <<"a", ".", "h", "e", "i", "c">>),
     File(Folder, <<"a", ".", "j", "p", "g">>),
     File(Folder, <<"a", ".", "d", "n", "g">>),
     File(Folder, <<"b", ".", "p", "n", "g">>),
     File(SubFolder, <<"a", ".", "j", "p", "g">>)}

Image(origin, rotate) == [origin |-> origin, rotate |-> rotate]

\* a run of one of the tools over up to MaxWrite files of a tree, each with
\* an orientation tag that asks for a rotation or not; orient_simple.py
\* lists one directory, orient_pro.py lists in the order glob yields
InitWrite ==
    /\ env = EnvIdle
    /\ disk = [l \in Loc |-> NoFile]
    /\ stats = NoStats
    /\ hist = <<>>
    /\ nm = NmIdle
    /\ rn = RnIdle
    /\ dd = DdIdle
    /\ \E S \in SUBSET WritePool, T \in SUBSET WritePool, backwards \in BOOLEAN,
          tool \in {"pro", "all", "simple"}, outside \in BOOLEAN,
          convert_to_jpeg \in BOOLEAN, pool \in BOOLEAN :
          /\ 1 <= Cardinality(S) /\ Cardinality(S) <= MaxWrite
          /\ T \subseteq S
          /\ tool = "simple" => (\A f \in S : f.dir = Folder) /\ ~outside
          /\ tool # "all" => ~convert_to_jpeg
          /\ tool # "pro" => ~pool /\ ~backwards
          /\ LET fs == {[path |-> f, data |-> Image(f, f \in T)] : f \in S}
             IN  ob = [phase |-> "write", tool |-> tool,
                       files |-> IF backwards THEN Reverse(Ascending(S))
                                 ELSE Ascending(S),
                       inplace |-> ~outside,
                       convert_to_jpeg |-> convert_to_jpeg,
                       pool |-> pool,
                       fs0 |-> fs, fs |-> fs,
                       todo |-> 1..Cardinality(S),
                       writes |-> <<>>]

WriteFiles == IF ob.phase = "write" THEN ob.todo ELSE {}

\* the file the loop takes next: the first left, or any left in the pool
TakenNext(i) == ob.pool \/ \A k \in ob.todo : i <= k

\* the image of source saved at dest with the orientation tag reset
Saved(fs, source, dest) ==
    {e \in fs : e.path # dest}
    \cup {[path |-> dest, data |-> Image(DataAt(fs, source).origin, FALSE)]}

\* the step of a tool for file i, saving to dest unless the image it opens
\* needs no rotation
write_step(i, dest) ==
    LET filepath == ob.files[i]
    IN  ob' = IF DataAt(ob.fs, filepath).rotate
                THEN [ob EXCEPT !.todo = @ \ {i},
                                !.fs = Saved(ob.fs, filepath, dest),
                                !.writes = Append(@, [source |-> filepath,
                                                      dest |-> dest])]
                ELSE [ob EXCEPT !.todo = @ \ {i}]

\* orient_pro.py process_single_image and save_with_metadata for file i
pro_write(i) ==
    /\ ob.phase = "write" /\ ob.tool = "pro"
    /\ i \in ob.todo /\ TakenNext(i)
    /\ write_step(i, pro_save_path(pro_output_path(ob.files[i], ob.inplace,
                                                   OutFolder, Folder),
                                   ob.files[i]))
    /\ UNCHANGED <<env, disk, stats, hist, nm, rn, dd>>

\* orient_all.py fix_image for file i
all_write(i) ==
    /\ ob.phase = "write" /\ ob.tool = "all"
    /\ i \in ob.todo /\ TakenNext(i)
    /\ write_step(i, all_save_path(ob.files[i], ob.convert_to_jpeg,
                                   IF ob.inplace THEN None ELSE Some(OutFolder)))
    /\ UNCHANGED <<env, disk, stats, hist, nm, rn, dd>>

\* orient_simple.py fix_image for file i
simple_write(i) ==
    /\ ob.phase = "write" /\ ob.tool = "simple"
    /\ i \in ob.todo /\ TakenNext(i)
    /\ write_step(i, simple_save_path(ob.files[i]))
    /\ UNCHANGED <<env, disk, stats, hist, nm, rn, dd>>

NextWrite ==
    \/ \E i \in WriteFiles : pro_write(i)
    \/ \E i \in WriteFiles : all_write(i)
    \/ \E i \in WriteFiles : simple_write(i)

SpecWrite == InitWrite /\ [][NextWrite]_vars

----------------------------------------------------------------------------
(* The vocabulary of the claims about the paths written *)

WritesDone == {ob.writes[k] : k \in 1..Len(ob.writes)}

SourceFiles == {ob.files[k] : k \in 1..Len(ob.files)}

\* C27: in a run of an orientation tool, two writes for different source
\* files go to different paths, and no write goes to the path of a source
\* file other than its own.
C27_DistinctOutputs ==
    ob.phase = "write" =>
      /\ \A w1, w2 \in WritesDone : w1.source # w2.source => w1.dest # w2.dest
      /\ \A w \in WritesDone : w.dest \in SourceFiles => w.dest = w.source

\* the same for the writes of sources that are not HEIC, HEIF or DNG, of
\* runs other than orient_all.py with an output directory or with
\* convert_to_jpeg
C27_DistinctUnlessRedirected ==
    (ob.phase = "write" /\ ~(ob.tool = "all" /\ (~ob.inplace \/ ob.convert_to_jpeg))) =>
      LET plain == {w \in WritesDone :
                      Lower(Suffix(w.source.name)) \notin
                        {<<".", "h", "e", "i", "c">>, <<".", "h", "e", "i", "f">>,
                         <<".", "d", "n", "g">>}}
      IN  /\ \A w1, w2 \in plain : w1.source # w2.source => w1.dest # w2.dest
          /\ \A w \in plain : w.dest \in SourceFiles => w.dest = w.source

\* a.jpg keeps the image it held
C27_JpgKept ==
    ob.phase = "write" =>
      \A e \in ob.fs : e.path \in SourceFiles => e.data.origin = e.path

----------------------------------------------------------------------------
(* The vocabulary of the claims about the two methods of                   *)
(* apply_exif_orientation *)

\* the runs of orient_pro.py that normalized an image with tag 2..8
ProExifRuns ==
    {e \in ExifRuns : e.tool = "pro" /\ get_orientation_tag(e.before) \in 2..8}

SameArrangement(a, b) == a.px = b.px /\ a.w = b.w /\ a.h = b.h

\* what the run's image becomes by each of the two methods
ByPrimary(e) == exif_transpose(e.before)

ByManual(e) == ManualOrientation(e.before, get_orientation_tag(e.before))

\* C28: for every tag 2..8 the image a run of apply_exif_orientation
\* returns has the pixel arrangement and the size both methods give:
\* ImageOps.exif_transpose and the manual fallback.
C28_MethodsAgree ==
    \A e \in ProExifRuns :
        /\ SameArrangement(e.result, ByPrimary(e))
        /\ SameArrangement(e.result, ByManual(e))

\* the same for the tags other than 5 and 7
C28_MethodsAgreeBut5And7 ==
    \A e \in ProExifRuns :
        get_orientation_tag(e.before) \notin {5, 7} =>
          /\ SameArrangement(e.result, ByPrimary(e))
          /\ SameArrangement(e.result, ByManual(e))

\* for tags 5 and 7 the fallback gives what exif_transpose gives for the
\* other of the two, and the sizes agree
C28_FallbackExchanges5And7 ==
    \A e \in ProExifRuns :
        get_orientation_tag(e.before) \in {5, 7} =>
          /\ ByManual(e).px
               = ImTranspose(e.before,
                             IF get_orientation_tag(e.before) = 5
                               THEN "TRANSVERSE" ELSE "TRANSPOSE").px
          /\ ByManual(e).w = ByPrimary(e).w /\ ByManual(e).h = ByPrimary(e).h
          /\ e.path = "manual" => SameArrangement(e.result, ByManual(e))
          /\ e.path = "primary" => SameArrangement(e.result, ByPrimary(e))

----------------------------------------------------------------------------
(* The vocabulary of the claims about the preview of a rename batch *)

\* the destination the batch's tool computes for file i on disk fs
PlannedOn(fs, i) ==
    LET f == rn.files[i]
        now == CHOOSE t \in BatchClock : TRUE
    IN  IF rn.tool = "pro"
          THEN get_unique_path(Paths(fs), TargetDir(rn.dest, f),
                               NewBase("pro", f, now), NewExt(f))
          ELSE unique_target_path(Paths(fs), TargetDir(rn.dest, f),
                                  NewBase("simple", f, now), NewExt(f))

\* the destinations of files i, i+1, ... in a run that moves or copies each
\* file before the next is taken up, from disk fs on
RECURSIVE RealMapping(_, _)
RealMapping(fs, i) ==
    IF i > Len(rn.files) THEN <<>>
    ELSE <<PlannedOn(fs, i)>>
         \o RealMapping(MoveOrCopy(fs, SourcePath(rn.files[i]), PlannedOn(fs, i),
                                   rn.copy_mode), i + 1)

\* the batch is through and every file has the given state
AllFiles(state) ==
    /\ rn.phase # "idle"
    /\ \A i \in 1..Len(rn.files) : rn.st[i] = state

\* what file i is to be named: directory, base name and extension
Target(i) ==
    LET f == rn.files[i]
        now == CHOOSE t \in BatchClock : TRUE
    IN  <<TargetDir(rn.dest, f), NewBase(rn.tool, f, now), NewExt(f)>>

\* C29: the destinations a dry run has printed are those a real run over
\* the same files and the same disk gives, and they are pairwise distinct.
C29_PreviewIsReal ==
    (rn.phase # "idle" /\ rn.dry_run /\ AllFiles("dry")) =>
       /\ \A i \in 1..Len(rn.files) : rn.new_path[i] = RealMapping(rn.fs0, 1)[i]
       /\ \A i, j \in 1..Len(rn.files) : i # j => rn.new_path[i] # rn.new_path[j]

\* the same when no two files of the batch are to get the same name
C29_PreviewIsRealDistinctNames ==
    (rn.phase # "idle" /\ rn.dry_run /\ AllFiles("dry")
       /\ \A i, j \in 1..Len(rn.files) : i # j => Target(i) # Target(j)) =>
       /\ \A i \in 1..Len(rn.files) : rn.new_path[i] = RealMapping(rn.fs0, 1)[i]
       /\ \A i, j \in 1..Len(rn.files) : i # j => rn.new_path[i] # rn.new_path[j]

\* a real run in which nothing failed has named the files so, each its own
C29_RealMapping ==
    (rn.phase # "idle" /\ ~rn.dry_run /\ AllFiles("ok")) =>
       /\ \A i \in 1..Len(rn.files) : rn.new_path[i] = RealMapping(rn.fs0, 1)[i]
       /\ \A i, j \in 1..Len(rn.files) : i # j => rn.new_path[i] # rn.new_path[j]

\* a dry run over two files that are to get the same name has run
C29_SameNamePreviewed ==
    /\ rn.phase # "idle" /\ rn.dry_run /\ AllFiles("dry")
    /\ Len(rn.files) = 2 /\ Target(1) = Target(2)

----------------------------------------------------------------------------
(* The vocabulary of the claims about the directories of a group *)

\* the copy-candidates of f's name that lie in f's directory
CandidatesNextTo(f) ==
    {c \in Listed : /\ IsCopyCandidate(c)
                    /\ OriginalName(c.name) = f.name
                    /\ c.dir = f.dir}

\* C30: after the search, every copy of a group lies in the directory of
\* the group's canonical, and every listed non-copy file with
\* copy-candidates of its name in its own directory is the canonical of a
\* group.
C30_SameDirectory ==
    Searched =>
      /\ \A g \in FoundGroups : \A c \in Range(g.copies) : c.dir = g.canonical.dir
      /\ \A f \in Listed :
            (~IsCopyCandidate(f) /\ CandidatesNextTo(f) # {}) =>
               \E g \in FoundGroups : g.canonical = f

\* the same for the scans of one directory
C30_SameDirectoryFlat ==
    (Searched /\ ~dd.recursive) =>
      /\ \A g \in FoundGroups : \A c \in Range(g.copies) : c.dir = g.canonical.dir
      /\ \A f \in Listed :
            (~IsCopyCandidate(f) /\ CandidatesNextTo(f) # {}) =>
               \E g \in FoundGroups : g.canonical = f

\* a recursive scan puts no copy into a group of another directory
C30_NoCopyAcross ==
    (Searched /\ dd.recursive) =>
      \A g \in FoundGroups : \A c \in Range(g.copies) : c.dir = g.canonical.dir

\* a recursive scan makes every original that has copies next to it a
\* canonical
C30_NoShadow ==
    (Searched /\ dd.recursive) =>
      \A f \in Listed :
         (~IsCopyCandidate(f) /\ CandidatesNextTo(f) # {}) =>
            \E g \in FoundGroups : g.canonical = f

====
